---- MODULE Spec2Model ----
(***************************************************************************)
(* Verification model of clu-comics:                                       *)
(*   - the operations registry of app_state.py                             *)
(*   - the collection matcher of helpers/collection.py                     *)
(***************************************************************************)
EXTENDS Integers, Sequences, FiniteSets, TLC

(***************************************************************************)
(* Program constants (app_state.py)                                        *)
(***************************************************************************)
COMPLETED_TTL == 15
STALE_TIMEOUT == 300

\* Python None in a numeric position (timestamps and counters are >= 0).
None == -1
\* Python None in the position of the detail string.
NoDetail == "<None>"

(***************************************************************************)
(* Bounds of the model                                                     *)
(***************************************************************************)
MaxOps == 2
NumThreads == 2
MaxTicks == 1
MaxProgress == 1
LiveTicks == 2
MaxEntered == 3

OpIds == 1..MaxOps
Threads == 1..NumThreads
Progress == 0..MaxProgress
OpTypes == {"metadata"}
Labels == {"Batman"}
\* amounts by which the wall clock advances between two steps: up to and beyond
\* each of the two thresholds
TickSteps == {COMPLETED_TTL, STALE_TIMEOUT, STALE_TIMEOUT + 1}
\* the arguments (current, total, detail) of update_operation:
\* a heartbeat and a progress report
ProgressUpdates == {<<None, None, NoDetail>>, <<1, None, "Copying...">>}
\* a heartbeat, and a report that sets the progress back
LateUpdates == {<<None, None, NoDetail>>, <<0, None, "Copying...">>}
\* nothing supplied, and each field supplied alone, with a falsy value too
AllUpdates ==
    {<<None, None, NoDetail>>, <<None, None, "">>}
        \cup {<<c, None, NoDetail>> : c \in Progress}
        \cup {<<None, tot, NoDetail>> : tot \in Progress}

VARIABLES
    operations,   \* _operations: the dict, as the sequence of its values in insertion order
    clock,        \* the wall clock read by time.time()
    ticks,        \* number of clock advances so far (bounds the run)
    issued,       \* uuids generated so far
    pc,           \* per thread: "idle", or the call it is in the middle of
    local,        \* per thread: the locals of the call in progress
    results,      \* ids returned by register_operation, in order of return
    last,         \* the call that returned most recently, with its return value
    abandoned,    \* ids whose producer has died
    lock,         \* _operations_lock: the thread that holds it, or None
    frame,        \* per thread: the locals of the call body it is running
    serial,       \* the registry the returned calls give when run one after another
    entered,      \* number of times the lock has been taken
    held,         \* the list a caller of get_active_operations kept: references to records
    noted,        \* the operations that caller saw turn stalled, with their completed_at
    requests,     \* per thread: the request to a save-schedule endpoint it serves
    mapped_path,  \* the series directory: its files, in listing order
    listdir_ok,   \* whether os.listdir(mapped_path) succeeds
    custom_rename_pattern,   \* the user preference of that name
    collection_status,       \* the rows of the collection cache
    run,          \* the latest call of match_issues_to_collection
    changed,      \* whether the directory changed since that call
    calls,        \* number of calls of match_issues_to_collection so far
    edits,        \* number of changes of the directory so far
    arg,          \* the argument a helper function is applied to
    ret           \* what the helper returned for it, call after call

lockVars == <<lock, frame, serial, entered>>

callerVars == <<held, noted>>

\* the requests to the save-schedule endpoints
routeVars == <<requests>>

regVars ==
    <<operations, clock, ticks, issued, pc, local, results, last, abandoned, lockVars,
      callerVars, routeVars>>

matchVars ==
    <<mapped_path, listdir_ok, custom_rename_pattern, collection_status, run, changed,
      calls, edits>>

\* a helper function under study, outside the registry and the matcher
pureVars == <<arg, ret>>

(***************************************************************************)
(* Helpers on the registry                                                 *)
(***************************************************************************)
Ids(ops) == {ops[i].id : i \in DOMAIN ops}

Has(ops, id) == \E i \in DOMAIN ops : ops[i].id = id

\* _operations.get(op_id) for a present key
Get(ops, id) == ops[CHOOSE i \in DOMAIN ops : ops[i].id = id]

NoLocal == [op_id |-> None, now |-> None, op_type |-> "", label |-> "", total |-> None]

NoCall == [op |-> "none", id |-> None, known |-> FALSE]

\* a request thread that has served nothing yet: no endpoint, no body, no
\* response, no call made
NoRequest ==
    [endpoint |-> "none", data |-> [body |-> FALSE], at |-> "idle", status |-> 0,
     did |-> <<>>, served |-> 0]

\* the arguments and locals of a call body that is not running
NoFrame ==
    [op_id |-> None, current |-> None, total |-> None, detail |-> NoDetail,
     error |-> FALSE, found |-> FALSE, i |-> 0, expired |-> <<>>, stamp |-> None,
     overlapped |-> <<>>]

\* uuid.uuid4().hex: a value that no earlier call produced
uuid4_collide(seen) == OpIds

uuid4(seen) == OpIds \ seen

\* the dict literal of register_operation
NewOperation_nototal(op_id, op_type, label, total, now) ==
    [id |-> op_id, op_type |-> op_type, label |-> label, status |-> "running",
     current |-> 0, total |-> 0, detail |-> "Starting...",
     started_at |-> now, updated_at |-> now, completed_at |-> None]

NewOperation(op_id, op_type, label, total, now) ==
    [id |-> op_id, op_type |-> op_type, label |-> label, status |-> "running",
     current |-> 0, total |-> total, detail |-> "Starting...",
     started_at |-> now, updated_at |-> now, completed_at |-> None]

\* _operations[op_id] = rec : a present key keeps its position, a new key is appended
DictSet(ops, id, rec) ==
    IF Has(ops, id)
    THEN [i \in DOMAIN ops |-> IF ops[i].id = id THEN rec ELSE ops[i]]
    ELSE Append(ops, rec)

\* body of update_operation on the record found
UpdateFields_truthy(op, current, total, detail, now) ==
    [op EXCEPT !.current = IF current # None /\ current # 0 THEN current ELSE @,
               !.total = IF total # None /\ total # 0 THEN total ELSE @,
               !.detail = IF detail # NoDetail /\ detail # "" THEN detail ELSE @,
               !.updated_at = now]

UpdateFields_revive(op, current, total, detail, now) ==
    [op EXCEPT !.current = IF current # None THEN current ELSE @,
               !.total = IF total # None THEN total ELSE @,
               !.detail = IF detail # NoDetail THEN detail ELSE @,
               !.status = "running",
               !.updated_at = now]

UpdateFields(op, current, total, detail, now) ==
    [op EXCEPT !.current = IF current # None THEN current ELSE @,
               !.total = IF total # None THEN total ELSE @,
               !.detail = IF detail # NoDetail THEN detail ELSE @,
               !.updated_at = now]

\* lines 49-58: the lookup, and the early return when the id is absent
update_body_upsert(ops, op_id, current, total, detail, now) ==
    DictSet(ops, op_id,
            UpdateFields(IF Has(ops, op_id) THEN Get(ops, op_id)
                         ELSE NewOperation(op_id, "", "", 0, now),
                         current, total, detail, now))

update_body_running(ops, op_id, current, total, detail, now) ==
    IF Has(ops, op_id) /\ Get(ops, op_id).status = "running"
    THEN DictSet(ops, op_id, UpdateFields(Get(ops, op_id), current, total, detail, now))
    ELSE ops

update_body(ops, op_id, current, total, detail, now) ==
    IF Has(ops, op_id)
    THEN DictSet(ops, op_id, UpdateFields(Get(ops, op_id), current, total, detail, now))
    ELSE ops

\* body of complete_operation on the record found
CompleteFields_snap(op, error, now) ==
    [op EXCEPT !.status = IF error THEN "error" ELSE "completed",
               !.completed_at = now,
               !.current = op.total]

CompleteFields(op, error, now) ==
    [op EXCEPT !.status = IF error THEN "error" ELSE "completed",
               !.completed_at = now,
               !.current = IF ~error THEN op.total ELSE @]

\* lines 64-70: the lookup, and the early return when the id is absent
complete_body(ops, op_id, error, now) ==
    IF Has(ops, op_id)
    THEN DictSet(ops, op_id, CompleteFields(Get(ops, op_id), error, now))
    ELSE ops

\* first loop of get_active_operations: the test of line 79
IsStale_ge(op, now) ==
    op.status = "running" /\ (now - op.updated_at) >= STALE_TIMEOUT

IsStale(op, now) ==
    op.status = "running" /\ (now - op.updated_at) > STALE_TIMEOUT

MarkStale_none(ops, now) == ops

MarkStale_old(ops, now) ==
    [i \in DOMAIN ops |->
        IF IsStale(ops[i], now)
        THEN [ops[i] EXCEPT !.status = "error", !.completed_at = ops[i].updated_at,
                            !.detail = "Operation stalled"]
        ELSE ops[i]]

MarkStale(ops, now) ==
    [i \in DOMAIN ops |->
        IF IsStale(ops[i], now)
        THEN [ops[i] EXCEPT !.status = "error", !.completed_at = now,
                            !.detail = "Operation stalled"]
        ELSE ops[i]]

\* the filter of the list comprehension `expired`
IsExpired_never(op, now) == FALSE

IsExpired(op, now) ==
    /\ op.status \in {"completed", "error"}
    /\ op.completed_at # None
    /\ (now - op.completed_at) > COMPLETED_TTL

\* for oid in expired: del _operations[oid]
Prune(ops, now) == SelectSeq(ops, LAMBDA op : ~IsExpired(op, now))

\* list(_operations.values()): the records, by reference
Values(ops) == [i \in DOMAIN ops |-> ops[i].id]

(***************************************************************************)
(* Initial state: an empty registry, all threads idle                      *)
(***************************************************************************)
RegistryInit ==
    /\ operations = <<>>
    /\ clock = 0
    /\ ticks = 0
    /\ issued = {}
    /\ pc = [t \in Threads |-> "idle"]
    /\ local = [t \in Threads |-> NoLocal]
    /\ results = <<>>
    /\ last = NoCall
    /\ abandoned = {}
    /\ lock = None
    /\ frame = [t \in Threads |-> NoFrame]
    /\ serial = <<>>
    /\ entered = 0
    /\ held = <<>>
    /\ noted = {}
    /\ requests = [t \in Threads |-> NoRequest]

(***************************************************************************)
(* Environment: time passes                                                *)
(***************************************************************************)
Tick(d) ==
    /\ clock' = clock + d
    /\ ticks' = ticks + 1
    /\ UNCHANGED <<operations, issued, pc, local, results, last, abandoned>>
    /\ UNCHANGED <<lockVars, callerVars, routeVars, matchVars, pureVars>>

(***************************************************************************)
(* register_operation: lines 28-29 run before the lock is taken            *)
(***************************************************************************)
register_call(t, op_type, label, total) ==
    /\ pc[t] = "idle"
    /\ \E op_id \in uuid4(issued) :
          /\ issued' = issued \cup {op_id}
          /\ local' = [local EXCEPT ![t] = [op_id |-> op_id, now |-> clock,
                                            op_type |-> op_type, label |-> label,
                                            total |-> total]]
    /\ pc' = [pc EXCEPT ![t] = "register"]
    /\ UNCHANGED <<operations, clock, ticks, results, last, abandoned>>
    /\ UNCHANGED <<lockVars, callerVars, routeVars, matchVars, pureVars>>

\* lines 30-43: the insert under the lock, and the return
register_operation(t) ==
    /\ pc[t] = "register"
    /\ operations' = DictSet(operations, local[t].op_id,
                             NewOperation(local[t].op_id, local[t].op_type,
                                          local[t].label, local[t].total,
                                          local[t].now))
    /\ results' = Append(results, local[t].op_id)
    /\ last' = [op |-> "register", id |-> local[t].op_id,
                known |-> Has(operations, local[t].op_id)]
    /\ pc' = [pc EXCEPT ![t] = "idle"]
    /\ local' = [local EXCEPT ![t] = NoLocal]
    /\ UNCHANGED <<clock, ticks, issued, abandoned>>
    /\ UNCHANGED <<lockVars, callerVars, routeVars, matchVars, pureVars>>

(***************************************************************************)
(* update_operation: the whole body runs under the lock, so the call is    *)
(* one step of whichever thread makes it                                   *)
(***************************************************************************)
update_operation_sweep(op_id, current, total, detail) ==
    /\ \E t \in Threads : pc[t] = "idle"
    /\ op_id \notin abandoned
    /\ operations' = Prune(MarkStale(update_body(operations, op_id, current, total, detail,
                                              clock), clock), clock)
    /\ last' = [op |-> "update", id |-> op_id, known |-> Has(operations, op_id)]
    /\ UNCHANGED <<clock, ticks, issued, pc, local, results, abandoned>>
    /\ UNCHANGED <<lockVars, callerVars, routeVars, matchVars, pureVars>>

update_operation(op_id, current, total, detail) ==
    /\ \E t \in Threads : pc[t] = "idle"
    /\ op_id \notin abandoned
    /\ operations' = update_body(operations, op_id, current, total, detail, clock)
    /\ last' = [op |-> "update", id |-> op_id, known |-> Has(operations, op_id)]
    /\ UNCHANGED <<clock, ticks, issued, pc, local, results, abandoned>>
    /\ UNCHANGED <<lockVars, callerVars, routeVars, matchVars, pureVars>>

(***************************************************************************)
(* complete_operation: the whole body runs under the lock                  *)
(***************************************************************************)
complete_operation(op_id, error) ==
    /\ \E t \in Threads : pc[t] = "idle"
    /\ op_id \notin abandoned
    /\ operations' = complete_body(operations, op_id, error, clock)
    /\ last' = [op |-> IF error THEN "complete_error" ELSE "complete", id |-> op_id,
                known |-> Has(operations, op_id)]
    /\ UNCHANGED <<clock, ticks, issued, pc, local, results, abandoned>>
    /\ UNCHANGED <<lockVars, callerVars, routeVars, matchVars, pureVars>>

(***************************************************************************)
(* get_active_operations: line 75 reads the clock before the lock is taken *)
(***************************************************************************)
get_active_call(t) ==
    /\ pc[t] = "idle"
    /\ pc' = [pc EXCEPT ![t] = "get_active"]
    /\ local' = [local EXCEPT ![t] = [NoLocal EXCEPT !.now = clock]]
    /\ UNCHANGED <<operations, clock, ticks, issued, results, last, abandoned>>
    /\ UNCHANGED <<lockVars, callerVars, routeVars, matchVars, pureVars>>

\* lines 76-93: both sweeps and the return, under the lock
get_active_operations(t) ==
    /\ pc[t] = "get_active"
    /\ operations' = Prune(MarkStale(operations, local[t].now), local[t].now)
    /\ last' = [op |-> "get_active", id |-> None, known |-> FALSE]
    /\ pc' = [pc EXCEPT ![t] = "idle"]
    /\ local' = [local EXCEPT ![t] = NoLocal]
    /\ UNCHANGED <<clock, ticks, issued, results, abandoned>>
    /\ UNCHANGED <<lockVars, callerVars, routeVars, matchVars, pureVars>>

\* ops = get_active_operations(): the same call, by a caller that keeps the list
get_active_kept(t) ==
    /\ pc[t] = "get_active"
    /\ operations' = Prune(MarkStale(operations, local[t].now), local[t].now)
    /\ held' = Values(operations')
    /\ noted' = noted \cup
                  {[id |-> operations[i].id, at |-> Get(operations', operations[i].id).completed_at] :
                      i \in {k \in DOMAIN operations :
                                /\ operations[k].status = "running"
                                /\ Has(operations', operations[k].id)
                                /\ Get(operations', operations[k].id).status = "error"}}
    /\ last' = [op |-> "get_active", id |-> None, known |-> FALSE]
    /\ pc' = [pc EXCEPT ![t] = "idle"]
    /\ local' = [local EXCEPT ![t] = NoLocal]
    /\ UNCHANGED <<clock, ticks, issued, results, abandoned>>
    /\ UNCHANGED <<lockVars, routeVars, matchVars, pureVars>>

(***************************************************************************)
(* The producer of a running operation dies: it makes no further call      *)
(***************************************************************************)
Abandon(op_id) ==
    /\ Has(operations, op_id)
    /\ Get(operations, op_id).status = "running"
    /\ op_id \notin abandoned
    /\ abandoned' = abandoned \cup {op_id}
    /\ UNCHANGED <<operations, clock, ticks, issued, pc, local, results, last>>
    /\ UNCHANGED <<lockVars, callerVars, routeVars, matchVars, pureVars>>

vars == <<regVars, matchVars, pureVars>>

\* no call of match_issues_to_collection yet
NoRun ==
    [called |-> FALSE, issues |-> <<>>, series_info |-> [id |-> None, name |-> <<>>],
     use_cache |-> FALSE, res |-> {}, hit |-> FALSE, listed |-> FALSE,
     extractions |-> <<>>, saves |-> <<>>,
     prior |-> [repeat |-> FALSE, scanned |-> FALSE]]

\* an empty directory, an empty cache, no naming template
MatcherIdle ==
    /\ mapped_path = <<>>
    /\ listdir_ok = TRUE
    /\ custom_rename_pattern = <<>>
    /\ collection_status = <<>>
    /\ run = NoRun
    /\ changed = FALSE
    /\ calls = 0
    /\ edits = 0

\* no helper applied
PureIdle == arg = <<>> /\ ret = <<>>

Init == RegistryInit /\ MatcherIdle /\ PureIdle

\* the registry over time: long clock steps, progress reports
Next ==
    \/ \E d \in TickSteps : ticks < MaxTicks /\ Tick(d)
    \/ \E t \in Threads, ty \in OpTypes, lb \in Labels :
          register_call(t, ty, lb, MaxProgress)
    \/ \E t \in Threads : register_operation(t)
    \/ \E id \in OpIds, u \in ProgressUpdates :
          update_operation(id, u[1], u[2], u[3])
    \/ \E id \in OpIds, e \in BOOLEAN : complete_operation(id, e)
    \/ \E t \in Threads : get_active_call(t)
    \/ \E t \in Threads : get_active_operations(t)

Spec == Init /\ [][Next]_vars

\* registrations and updates with every kind of argument, over a short time
ArgNext ==
    \/ ticks < MaxTicks /\ Tick(1)
    \/ \E t \in Threads, ty \in OpTypes, lb \in Labels, tot \in Progress :
          register_call(t, ty, lb, tot)
    \/ \E t \in Threads : register_operation(t)
    \/ \E id \in OpIds, u \in AllUpdates :
          update_operation(id, u[1], u[2], u[3])
    \/ \E t \in Threads : get_active_call(t)
    \/ \E t \in Threads : get_active_operations(t)

ArgSpec == Init /\ [][ArgNext]_vars

\* registrations alone, racing
RegNext ==
    \/ ticks < MaxTicks /\ Tick(1)
    \/ \E t \in Threads, ty \in OpTypes, lb \in Labels, tot \in Progress :
          register_call(t, ty, lb, tot)
    \/ \E t \in Threads : register_operation(t)

RegSpec == Init /\ [][RegNext]_vars

\* producers that may die, a clock that keeps advancing and a client that keeps
\* polling: every call that was started returns
LiveNext ==
    \/ ticks < LiveTicks /\ Tick(STALE_TIMEOUT + 1)
    \/ \E t \in Threads, ty \in OpTypes, lb \in Labels :
          register_call(t, ty, lb, MaxProgress)
    \/ \E t \in Threads : register_operation(t)
    \/ \E id \in OpIds : update_operation(id, None, None, NoDetail)
    \/ \E id \in OpIds : complete_operation(id, FALSE)
    \/ \E t \in Threads : get_active_call(t)
    \/ \E t \in Threads : get_active_operations(t)
    \/ \E id \in OpIds : Abandon(id)

LiveFairness ==
    /\ WF_vars(ticks < LiveTicks /\ Tick(STALE_TIMEOUT + 1))
    /\ WF_vars(\E t \in Threads : get_active_call(t))
    /\ \A t \in Threads : WF_vars(get_active_operations(t))
    /\ \A t \in Threads : WF_vars(register_operation(t))

LiveSpec == Init /\ [][LiveNext]_vars /\ LiveFairness

\* producers that go on reporting after their operation has ended
LateNext ==
    \/ \E d \in TickSteps : ticks < MaxTicks /\ Tick(d)
    \/ \E t \in Threads, ty \in OpTypes, lb \in Labels :
          register_call(t, ty, lb, MaxProgress)
    \/ \E t \in Threads : register_operation(t)
    \/ \E id \in OpIds, u \in LateUpdates :
          update_operation(id, u[1], u[2], u[3])
    \/ \E id \in OpIds, e \in BOOLEAN : complete_operation(id, e)
    \/ \E t \in Threads : get_active_call(t)
    \/ \E t \in Threads : get_active_operations(t)

LateSpec == Init /\ [][LateNext]_vars

\* operations that stall and are polled until they are gone
StallSteps == {COMPLETED_TTL, STALE_TIMEOUT + 1}

StallNext ==
    \/ \E d \in StallSteps : ticks < LiveTicks /\ Tick(d)
    \/ \E t \in Threads, ty \in OpTypes, lb \in Labels :
          register_call(t, ty, lb, MaxProgress)
    \/ \E t \in Threads : register_operation(t)
    \/ \E id \in OpIds : update_operation(id, None, None, NoDetail)
    \/ \E id \in OpIds : complete_operation(id, FALSE)
    \/ \E t \in Threads : get_active_call(t)
    \/ \E t \in Threads : get_active_kept(t)

StallSpec == Init /\ [][StallNext]_vars

\* the registry over time, polled by callers that keep the list they got
KeptNext ==
    \/ \E d \in TickSteps : ticks < MaxTicks /\ Tick(d)
    \/ \E t \in Threads, ty \in OpTypes, lb \in Labels :
          register_call(t, ty, lb, MaxProgress)
    \/ \E t \in Threads : register_operation(t)
    \/ \E id \in OpIds, u \in ProgressUpdates :
          update_operation(id, u[1], u[2], u[3])
    \/ \E id \in OpIds, e \in BOOLEAN : complete_operation(id, e)
    \/ \E t \in Threads : get_active_call(t)
    \/ \E t \in Threads : get_active_kept(t)

KeptSpec == Init /\ [][KeptNext]_vars

(***************************************************************************)
(* helpers/collection.py                                                   *)
(*                                                                         *)
(* Strings are sequences of one-character strings.                         *)
(***************************************************************************)
UpperCase == {"A", "B", "C", "E", "H", "K", "O", "R", "T", "U", "Z"}

\* str.lower() on one character (over the letters the model uses)
LowerChar(c) ==
    CASE c = "A" -> "a" [] c = "B" -> "b" [] c = "C" -> "c" [] c = "E" -> "e"
      [] c = "H" -> "h" [] c = "K" -> "k"
      [] c = "O" -> "o" [] c = "R" -> "r" [] c = "T" -> "t" [] c = "U" -> "u"
      [] c = "Z" -> "z" [] OTHER -> c

\* str.lower()
Lower(str) == [i \in DOMAIN str |-> LowerChar(str[i])]

Digits == {"0", "1", "2", "3", "4", "5", "6", "7", "8", "9"}
Whitespace == {" "}

\* str.lstrip('0')
RECURSIVE LStripZeros(_)
LStripZeros(str) ==
    IF str # <<>> /\ Head(str) = "0" THEN LStripZeros(Tail(str)) ELSE str

\* str.strip()
RECURSIVE LStripSpace(_)
LStripSpace(str) ==
    IF str # <<>> /\ Head(str) \in Whitespace THEN LStripSpace(Tail(str)) ELSE str

RECURSIVE RStripSpace(_)
RStripSpace(str) ==
    IF str # <<>> /\ str[Len(str)] \in Whitespace
    THEN RStripSpace(SubSeq(str, 1, Len(str) - 1))
    ELSE str

Strip(str) == RStripSpace(LStripSpace(str))

\* x.strip().lstrip('0') or '0'   (lines 75, 259, 260, 273)
NormalizeNumber_keepzeros(str) ==
    IF Strip(str) = <<>> THEN <<"0">> ELSE Strip(str)

NormalizeNumber(str) ==
    IF LStripZeros(Strip(str)) = <<>> THEN <<"0">> ELSE LStripZeros(Strip(str))

\* a in b, on strings
IsSubstring(a, b) ==
    \E i \in 1..(Len(b) - Len(a) + 1) : SubSeq(b, i, i + Len(a) - 1) = a

\* str.startswith / str.endswith
StartsWith(str, p) == Len(str) >= Len(p) /\ SubSeq(str, 1, Len(p)) = p

EndsWith(str, p) ==
    Len(str) >= Len(p) /\ SubSeq(str, Len(str) - Len(p) + 1, Len(str)) = p

(***************************************************************************)
(* Regular expressions, as sequences of nodes, matched with re.IGNORECASE  *)
(*   lit    one character                                                  *)
(*   cls    min..max characters of a class (neg: of its complement)        *)
(*   opt    (?: ... )?                                                     *)
(*   alt    (?:[class]|$)                                                  *)
(*   words  (?:w1|w2|...)                                                  *)
(*   end    $                                                              *)
(***************************************************************************)
Unbounded == 99

Node(k, c, cs, neg, min, max, r) ==
    [k |-> k, c |-> c, cs |-> cs, neg |-> neg, min |-> min, max |-> max, r |-> r]

ReLit(c) == Node("lit", c, {}, FALSE, 1, 1, <<>>)
ReClass(cs, neg, min, max) == Node("cls", "", cs, neg, min, max, <<>>)
ReOpt(r) == Node("opt", "", {}, FALSE, 0, 1, r)
ReAlt(cs, neg) == Node("alt", "", cs, neg, 0, 1, <<>>)
ReWords(ws) == Node("words", "", ws, FALSE, 1, 1, <<>>)
ReEnd == Node("end", "", {}, FALSE, 0, 0, <<>>)

\* re.escape(text): every character stands for itself
ReEscape(text) == [i \in DOMAIN text |-> ReLit(text[i])]

InClass(ch, n) == IF n.neg THEN ch \notin n.cs ELSE ch \in n.cs

Smaller(a, b) == IF a < b THEN a ELSE b

\* does re match str at position pos (whatever follows the match)
RECURSIVE MatchAt(_, _, _)
MatchAt(re, str, pos) ==
    IF re = <<>> THEN TRUE
    ELSE LET n == Head(re)
             rest == Tail(re)
         IN CASE n.k = "lit" ->
                   /\ pos <= Len(str)
                   /\ LowerChar(str[pos]) = LowerChar(n.c)
                   /\ MatchAt(rest, str, pos + 1)
              [] n.k = "cls" ->
                   \E cnt \in n.min..Smaller(n.max, Len(str) - pos + 1) :
                      /\ \A j \in 0..(cnt - 1) : InClass(str[pos + j], n)
                      /\ MatchAt(rest, str, pos + cnt)
              [] n.k = "opt" ->
                   MatchAt(n.r \o rest, str, pos) \/ MatchAt(rest, str, pos)
              [] n.k = "alt" ->
                   \/ /\ pos <= Len(str)
                      /\ InClass(str[pos], n)
                      /\ MatchAt(rest, str, pos + 1)
                   \/ pos = Len(str) + 1 /\ MatchAt(rest, str, pos)
              [] n.k = "words" ->
                   \E w \in n.cs :
                      /\ pos + Len(w) - 1 <= Len(str)
                      /\ Lower(SubSeq(str, pos, pos + Len(w) - 1)) = Lower(w)
                      /\ MatchAt(rest, str, pos + Len(w))
              [] n.k = "end" ->
                   pos = Len(str) + 1 /\ MatchAt(rest, str, pos)

\* re.search(re, str, re.IGNORECASE) is not None
Search(re, str) == \E pos \in 1..(Len(str) + 1) : MatchAt(re, str, pos)

(***************************************************************************)
(* generate_filename_pattern                                               *)
(*                                                                         *)
(* A template is a sequence whose elements are the three placeholders and  *)
(* single characters.                                                      *)
(***************************************************************************)
SERIES == "{series_name}"
ISSUE == "{issue_number}"
YEAR == "{year}"

\* characters of a template that stand for themselves in a regular expression
PlainChars ==
    {" ", "-", "_", "#"} \cup Digits \cup UpperCase \cup {LowerChar(c) : c \in UpperCase}

\* sep = [\s\-_:'\.&]   (lines 61, 86)
SepClass == Whitespace \cup {"-", "_", ":", "'", ".", "&"}

\* [\s\-_:;,\.]   (line 56)
NameSplitClass == Whitespace \cup {"-", "_", ":", ";", ",", "."}

\* OPTIONAL_WORDS (line 60)
OPTIONAL_WORDS ==
    {<<"a", "n", "d">>, <<"t", "h", "e">>, <<"o", "f">>, <<"o", "r">>,
     <<"v", "s">>, <<"v", "e", "r", "s", "u", "s">>}

comic_extensions ==
    {<<".", "c", "b", "z">>, <<".", "c", "b", "r">>,
     <<".", "z", "i", "p">>, <<".", "r", "a", "r">>}

\* str.replace(ch, "")
RemoveChars(str, cs) == SelectSeq(str, LAMBDA ch : ch \notin cs)

\* re.sub(r'[\s\-_:;,\.]+', ' ', name).strip().split(): the maximal runs of
\* characters outside the class
RECURSIVE SplitWords(_, _, _)
SplitWords(str, word, acc) ==
    IF str = <<>>
    THEN IF word = <<>> THEN acc ELSE Append(acc, word)
    ELSE IF Head(str) \in NameSplitClass
         THEN SplitWords(Tail(str), <<>>, IF word = <<>> THEN acc ELSE Append(acc, word))
         ELSE SplitWords(Tail(str), Append(word, Head(str)), acc)

\* lines 64-71: the words of the series name, connecting words optional
RECURSIVE SeriesParts(_, _)
SeriesParts(words, i) ==
    IF i > Len(words) THEN <<>>
    ELSE (IF Lower(words[i]) \in OPTIONAL_WORDS
          THEN <<ReOpt(ReEscape(words[i]) \o <<ReClass(SepClass, FALSE, 0, Unbounded)>>)>>
          ELSE ReEscape(words[i])
                  \o (IF i < Len(words)
                      THEN <<ReClass(SepClass, FALSE, 0, Unbounded)>>
                      ELSE <<>>))
         \o SeriesParts(words, i + 1)

HasThePrefix(series_name) == StartsWith(Lower(series_name), <<"t", "h", "e", " ">>)

\* lines 44-72: (?:The[\s\-_]+)? and the words of the rest of the name
SeriesPattern(series_name) ==
    IF HasThePrefix(series_name)
    THEN <<ReOpt(<<ReLit("T"), ReLit("h"), ReLit("e"),
                   ReClass(Whitespace \cup {"-", "_"}, FALSE, 1, Unbounded)>>)>>
            \o SeriesParts(SplitWords(RemoveChars(SubSeq(series_name, 5, Len(series_name)),
                                                  {"'", "&"}), <<>>, <<>>), 1)
    ELSE SeriesParts(SplitWords(RemoveChars(series_name, {"'", "&"}), <<>>, <<>>), 1)

\* lines 75-77: 0* and the number without its leading zeros
IssuePattern(issue_number) ==
    <<ReClass({"0"}, FALSE, 0, Unbounded)>> \o ReEscape(NormalizeNumber(issue_number))

\* line 86: the text ") (" arises where a space stands between a group or an
\* escaped ")" and a group
ClosesGroup(tok) == tok \in {SERIES, ISSUE, ")"}
OpensGroup(tok) == tok \in {SERIES, ISSUE}

\* the regular expression one element of the template turns into
TemplateNode(template, i, series_name, issue_number) ==
    LET tok == template[i] IN
    CASE tok = SERIES -> SeriesPattern(series_name)
      [] tok = ISSUE -> IssuePattern(issue_number)
      [] tok = YEAR -> <<ReClass(Digits, FALSE, 4, 4)>>
      [] tok = " " /\ i > 1 /\ i < Len(template)
            /\ ClosesGroup(template[i - 1]) /\ OpensGroup(template[i + 1])
           -> <<ReClass(SepClass, FALSE, 1, Unbounded)>>
      [] tok = "." -> <<ReClass({}, TRUE, 1, 1)>>
      [] OTHER -> <<ReLit(tok)>>

RECURSIVE TemplateNodes(_, _, _, _)
TemplateNodes(template, i, series_name, issue_number) ==
    IF i > Len(template) THEN <<>>
    ELSE TemplateNode(template, i, series_name, issue_number)
            \o TemplateNodes(template, i + 1, series_name, issue_number)

\* re.compile raises on an element that opens a character set and never closes it
Compilable(template) ==
    \A i \in DOMAIN template :
        template[i] \in {SERIES, ISSUE, YEAR, "(", ")", "."} \cup PlainChars

\* line 89: .*\.(?:cbz|cbr|zip|rar)$
ExtensionSuffix ==
    <<ReClass({}, TRUE, 0, Unbounded), ReLit("."),
      ReWords({Tail(e) : e \in comic_extensions}), ReEnd>>

NoPattern == [ok |-> FALSE, re |-> <<>>]

\* generate_filename_pattern: ok = FALSE stands for the return of None
generate_filename_pattern(custom_pattern, series_name, issue_number) ==
    IF custom_pattern = <<>> \/ series_name = <<>> THEN NoPattern
    ELSE IF ~Compilable(custom_pattern) THEN NoPattern
    ELSE [ok |-> TRUE,
          re |-> TemplateNodes(custom_pattern, 1, series_name, issue_number)
                    \o ExtensionSuffix]

(***************************************************************************)
(* match_issues_to_collection                                              *)
(*                                                                         *)
(* A directory is a sequence of files in listing order.  A file has a      *)
(* name (its path, the directory being fixed), a modification time (None   *)
(* when the file cannot be stat'ed, as for a dangling link) and the        *)
(* content of its archive: "corrupt", "absent" (no ComicInfo.xml) or       *)
(* "info" with the Series and Number elements.                             *)
(***************************************************************************)
\* None, where a path is expected
NoPath == <<>>

File(filename, mtime, kind, series, number) ==
    [filename |-> filename, mtime |-> mtime,
     ci |-> [kind |-> kind, series |-> series, number |-> number]]

HasExtension(name, exts) == \E e \in exts : EndsWith(Lower(name), e)

\* lines 111-129: None is the record with present = FALSE
NoComicInfo == [present |-> FALSE, series |-> <<>>, number |-> <<>>]

extract_comicinfo(file) ==
    IF ~HasExtension(file.filename, {<<".", "c", "b", "z">>, <<".", "z", "i", "p">>})
    THEN NoComicInfo
    ELSE IF file.ci.kind = "info"
         THEN [present |-> TRUE, series |-> file.ci.series, number |-> file.ci.number]
         ELSE NoComicInfo

\* os.path.exists, os.path.getmtime
FileIndex(dir, path) ==
    IF \E i \in DOMAIN dir : dir[i].filename = path
    THEN CHOOSE i \in DOMAIN dir : dir[i].filename = path
    ELSE 0

PathExists(dir, path) ==
    FileIndex(dir, path) # 0 /\ dir[FileIndex(dir, path)].mtime # None

GetMTime(dir, path) == dir[FileIndex(dir, path)].mtime

Abs(x) == IF x < 0 THEN -x ELSE x

\* a value Python takes for true
Truthy(x) == x # None /\ x # 0

\* lines 170-183: one cached row passes validation
EntryValid_ge(dir, entry) ==
    entry.file_path = NoPath
       \/ /\ PathExists(dir, entry.file_path)
          /\ ~(Truthy(entry.file_mtime)
                  /\ Abs(GetMTime(dir, entry.file_path) - entry.file_mtime) >= 1)

EntryValid_zero(dir, entry) ==
    entry.file_path = NoPath
       \/ /\ PathExists(dir, entry.file_path)
          /\ ~(entry.file_mtime # None
                  /\ Abs(GetMTime(dir, entry.file_path) - entry.file_mtime) > 1)

EntryValid(dir, entry) ==
    entry.file_path = NoPath
       \/ /\ PathExists(dir, entry.file_path)
          /\ ~(Truthy(entry.file_mtime)
                  /\ Abs(GetMTime(dir, entry.file_path) - entry.file_mtime) > 1)

\* lines 168-183
ValidCache(dir, cached) == \A i \in DOMAIN cached : EntryValid(dir, cached[i])

\* a Python dict from issue number to {found, file_path}, as the set of its
\* items; assigning to a key replaces the item of that key
ResultPut(res, issue_num, found, file_path) ==
    {r \in res : r.issue_number # issue_num}
       \cup {[issue_number |-> issue_num, found |-> found, file_path |-> file_path]}

\* lines 187-191
RECURSIVE CachedResults_allfound(_, _, _)
CachedResults_allfound(cached, i, res) ==
    IF i > Len(cached) THEN res
    ELSE CachedResults_allfound(cached, i + 1,
            ResultPut(res, cached[i].issue_number, TRUE, cached[i].file_path))

RECURSIVE CachedResults(_, _, _)
CachedResults(cached, i, res) ==
    IF i > Len(cached) THEN res
    ELSE CachedResults(cached, i + 1,
            ResultPut(res, cached[i].issue_number,
                      cached[i].found # 0, cached[i].file_path))

ScanDirectory_statable(dir) ==
    SelectSeq(dir, LAMBDA f : HasExtension(f.filename, comic_extensions) /\ f.mtime # None)

\* lines 202-215: the comic files of the directory, in listing order
ScanDirectory(dir) ==
    SelectSeq(dir, LAMBDA f : HasExtension(f.filename, comic_extensions))

\* F applied to the value of e, which is computed once
Bind(e, F(_)) == CHOOSE r \in {F(x) : x \in {e}} : TRUE

\* index of the first element of seq satisfying P, 0 if there is none
FirstIndex(seq, P(_)) ==
    Bind({i \in DOMAIN seq : P(seq[i])},
         LAMBDA S : IF S = {} THEN 0 ELSE CHOOSE i \in S : \A j \in S : i <= j)

\* lines 239-247
PatternTier_unchecked(files, custom_pattern, series_name, issue_num) ==
    IF custom_pattern # <<>> /\ series_name # <<>>
    THEN Bind(generate_filename_pattern(custom_pattern, series_name, issue_num),
              LAMBDA pattern_regex :
                 FirstIndex(files, LAMBDA f : Search(pattern_regex.re, f.filename)))
    ELSE 0

PatternTier(files, custom_pattern, series_name, issue_num) ==
    IF custom_pattern # <<>> /\ series_name # <<>>
    THEN Bind(generate_filename_pattern(custom_pattern, series_name, issue_num),
              LAMBDA pattern_regex :
                 IF pattern_regex.ok
                 THEN FirstIndex(files, LAMBDA f : Search(pattern_regex.re, f.filename))
                 ELSE 0)
    ELSE 0

ComicInfoMatches_oneway(ci, series_name, issue_num) ==
    /\ ci.number # <<>>
    /\ NormalizeNumber(ci.number) = NormalizeNumber(issue_num)
    /\ \/ Lower(ci.series) = <<>>
       \/ IsSubstring(Lower(series_name), Lower(ci.series))

\* lines 256-265
ComicInfoMatches(ci, series_name, issue_num) ==
    /\ ci.number # <<>>
    /\ NormalizeNumber(ci.number) = NormalizeNumber(issue_num)
    /\ \/ Lower(ci.series) = <<>>
       \/ IsSubstring(Lower(series_name), Lower(ci.series))
       \/ IsSubstring(Lower(ci.series), Lower(series_name))

ComicInfoTier_stop(files, series_name, issue_num) ==
    Bind({i \in DOMAIN files :
             /\ ComicInfoMatches(extract_comicinfo(files[i]), series_name, issue_num)
             /\ \A j \in 1..(i - 1) : extract_comicinfo(files[j]).present},
         LAMBDA S : IF S = {} THEN 0 ELSE CHOOSE i \in S : \A j \in S : i <= j)

\* lines 251-269
ComicInfoTier(files, series_name, issue_num) ==
    FirstIndex(files, LAMBDA f : ComicInfoMatches(extract_comicinfo(f), series_name, issue_num))

\* lines 274-277
GenericPatterns(check_num) ==
    << <<ReClass(Whitespace \cup {"-", "_"}, FALSE, 1, 1),
         ReClass({"0"}, FALSE, 0, Unbounded)>>
          \o ReEscape(check_num)
          \o <<ReAlt(Whitespace \cup {"-", "_", ".", "("}, FALSE)>>,
       <<ReLit("#"), ReClass({"0"}, FALSE, 0, Unbounded)>>
          \o ReEscape(check_num)
          \o <<ReAlt(Digits, TRUE)>> >>

\* lines 279-288
GenericTier_last(files, issue_num) ==
    Bind(GenericPatterns(NormalizeNumber(issue_num)),
         LAMBDA patterns :
            Bind({i \in DOMAIN files : \E p \in 1..2 : Search(patterns[p], files[i].filename)},
                 LAMBDA S : IF S = {} THEN 0 ELSE CHOOSE i \in S : \A j \in S : i >= j))

GenericTier(files, issue_num) ==
    Bind(GenericPatterns(NormalizeNumber(issue_num)),
         LAMBDA patterns :
            FirstIndex(files, LAMBDA f : \E p \in 1..2 : Search(patterns[p], f.filename)))

\* lines 234-288: the file chosen for one issue (an index into files, 0 for
\* none), the tier that chose it, and the files whose comicinfo the
\* embedded-metadata tier asked for
\* lines 234-236, 244-246, 266-268, 283-285; "none" stands for a matched_via of None
Chosen(files, a, b, c) ==
    [file |-> IF a # 0 THEN a ELSE IF b # 0 THEN b ELSE c,
     via |-> IF a # 0 THEN "pattern"
             ELSE IF b # 0 THEN "comicinfo"
             ELSE IF c # 0 THEN "filename" ELSE "none",
     probed |-> IF a # 0 THEN {}
                ELSE IF b # 0 THEN 1..b ELSE DOMAIN files]

MatchIssue_genericfirst(files, custom_pattern, series_name, issue_num) ==
    Bind(GenericTier(files, issue_num), LAMBDA c :
    Bind(IF c # 0 THEN 0 ELSE PatternTier(files, custom_pattern, series_name, issue_num),
         LAMBDA a :
    Bind(IF a # 0 \/ c # 0 THEN 0 ELSE ComicInfoTier(files, series_name, issue_num),
         LAMBDA b :
         Chosen(files, a, b, IF a # 0 \/ b # 0 THEN 0 ELSE c))))

MatchIssue(files, custom_pattern, series_name, issue_num) ==
    Bind(PatternTier(files, custom_pattern, series_name, issue_num), LAMBDA a :
    Bind(IF a # 0 THEN 0 ELSE ComicInfoTier(files, series_name, issue_num), LAMBDA b :
    Bind(IF a # 0 \/ b # 0 THEN 0 ELSE GenericTier(files, issue_num), LAMBDA c :
         Chosen(files, a, b, c))))

\* lines 253-254: the calls of extract_comicinfo one issue adds, in file order
RECURSIVE NewExtractions_eager(_, _, _, _)
NewExtractions_eager(files, probed, loaded, i) ==
    IF i > Len(files) THEN <<>>
    ELSE (IF i \notin loaded THEN <<files[i].filename>> ELSE <<>>)
            \o NewExtractions_eager(files, probed, loaded \cup {i}, i + 1)

RECURSIVE NewExtractions(_, _, _, _)
NewExtractions(files, probed, loaded, i) ==
    IF i > Len(files) THEN <<>>
    ELSE (IF i \in probed /\ i \notin loaded THEN <<files[i].filename>> ELSE <<>>)
            \o NewExtractions(files, probed, loaded, i + 1)

\* lines 296-305
CacheEntry_found(series_id, issue, files, m) ==
    [series_id |-> series_id, issue_id |-> issue.id, issue_number |-> issue.number,
     found |-> 1,
     file_path |-> IF m.file # 0 THEN files[m.file].filename ELSE NoPath,
     file_mtime |-> IF m.file # 0 THEN files[m.file].mtime ELSE None,
     matched_via |-> m.via]

CacheEntry(series_id, issue, files, m) ==
    [series_id |-> series_id, issue_id |-> issue.id, issue_number |-> issue.number,
     found |-> IF m.file # 0 THEN 1 ELSE 0,
     file_path |-> IF m.file # 0 THEN files[m.file].filename ELSE NoPath,
     file_mtime |-> IF m.file # 0 THEN files[m.file].mtime ELSE None,
     matched_via |-> m.via]

NoPass == [res |-> {}, cache_entries |-> <<>>, loaded |-> {}, extractions |-> <<>>]

\* lines 228-305: one iteration of the loop over the issues
IssueStep_stageall(issue, files, custom_pattern, series_info, st) ==
    IF issue.number = <<>> THEN st
    ELSE Bind(MatchIssue(files, custom_pattern, series_info.name, issue.number), LAMBDA m :
            [res |-> ResultPut(st.res, issue.number, m.file # 0,
                               IF m.file # 0 THEN files[m.file].filename ELSE NoPath),
             cache_entries |->
                IF Truthy(series_info.id)
                THEN Append(st.cache_entries, CacheEntry(series_info.id, issue, files, m))
                ELSE st.cache_entries,
             loaded |-> st.loaded \cup m.probed,
             extractions |-> st.extractions
                                \o NewExtractions(files, m.probed, st.loaded, 1)])

IssueStep(issue, files, custom_pattern, series_info, st) ==
    IF issue.number = <<>> THEN st
    ELSE Bind(MatchIssue(files, custom_pattern, series_info.name, issue.number), LAMBDA m :
            [res |-> ResultPut(st.res, issue.number, m.file # 0,
                               IF m.file # 0 THEN files[m.file].filename ELSE NoPath),
             cache_entries |->
                IF Truthy(series_info.id) /\ Truthy(issue.id)
                THEN Append(st.cache_entries, CacheEntry(series_info.id, issue, files, m))
                ELSE st.cache_entries,
             loaded |-> st.loaded \cup m.probed,
             extractions |-> st.extractions
                                \o NewExtractions(files, m.probed, st.loaded, 1)])

RECURSIVE MatchIssues_exclusive(_, _, _, _, _, _)
MatchIssues_exclusive(issues, i, files, custom_pattern, series_info, st) ==
    IF i > Len(issues) THEN st
    ELSE Bind(IssueStep(issues[i], files, custom_pattern, series_info, st), LAMBDA nxt :
            MatchIssues_exclusive(issues, i + 1,
                                  SelectSeq(files, LAMBDA f :
                                               \A r \in nxt.res : r.file_path # f.filename),
                                  custom_pattern, series_info, nxt))

\* lines 227-305: the loop over the issues
RECURSIVE MatchIssues(_, _, _, _, _, _)
MatchIssues(issues, i, files, custom_pattern, series_info, st) ==
    IF i > Len(issues) THEN st
    ELSE Bind(IssueStep(issues[i], files, custom_pattern, series_info, st), LAMBDA nxt :
            MatchIssues(issues, i + 1, files, custom_pattern, series_info, nxt))

(***************************************************************************)
(* The collection cache.  The storage layer is outside the sources; it is  *)
(* modelled from its description: one row per (series_id, issue_id),       *)
(* created or overwritten by a bulk save, read back per series.            *)
(***************************************************************************)
get_collection_status_for_series(rows, series_id) ==
    SelectSeq(rows, LAMBDA r : r.series_id = series_id)

SaveRow(rows, e) ==
    IF \E i \in DOMAIN rows : rows[i].series_id = e.series_id /\ rows[i].issue_id = e.issue_id
    THEN [i \in DOMAIN rows |->
            IF rows[i].series_id = e.series_id /\ rows[i].issue_id = e.issue_id
            THEN e ELSE rows[i]]
    ELSE Append(rows, e)

RECURSIVE save_collection_status_bulk(_, _)
save_collection_status_bulk(rows, entries) ==
    IF entries = <<>> THEN rows
    ELSE save_collection_status_bulk(SaveRow(rows, Head(entries)), Tail(entries))

\* one call of match_issues_to_collection: what it returns and what it did
Outcome(res, hit, listed, extractions, saves) ==
    [res |-> res, hit |-> hit, listed |-> listed,
     extractions |-> extractions, saves |-> saves]

\* lines 164-193
CacheHit_ignoreflag(dir, rows, series_info, use_cache) ==
    /\ Truthy(series_info.id)
    /\ get_collection_status_for_series(rows, series_info.id) # <<>>
    /\ ValidCache(dir, get_collection_status_for_series(rows, series_info.id))

CacheHit(dir, rows, series_info, use_cache) ==
    /\ use_cache
    /\ Truthy(series_info.id)
    /\ get_collection_status_for_series(rows, series_info.id) # <<>>
    /\ ValidCache(dir, get_collection_status_for_series(rows, series_info.id))

\* lines 156-312
MatchRun_emptydir(dir, listable, custom_pattern, rows, issues, series_info, use_cache) ==
    IF CacheHit(dir, rows, series_info, use_cache)
    THEN Outcome(CachedResults(get_collection_status_for_series(rows, series_info.id), 1, {}),
                 TRUE, FALSE, <<>>, <<>>)
    ELSE Bind(MatchIssues(issues, 1, IF listable THEN ScanDirectory(dir) ELSE <<>>,
                          custom_pattern, series_info, NoPass),
              LAMBDA st :
                 Outcome(st.res, FALSE, TRUE, st.extractions,
                         IF st.cache_entries # <<>> THEN <<st.cache_entries>> ELSE <<>>))

MatchRun_onlyasked(dir, listable, custom_pattern, rows, issues, series_info, use_cache) ==
    IF CacheHit(dir, rows, series_info, use_cache)
    THEN Outcome(CachedResults(
                    SelectSeq(get_collection_status_for_series(rows, series_info.id),
                              LAMBDA r : \E i \in DOMAIN issues :
                                            issues[i].number = r.issue_number),
                    1, {}),
                 TRUE, FALSE, <<>>, <<>>)
    ELSE IF ~listable
         THEN Outcome({}, FALSE, TRUE, <<>>, <<>>)
         ELSE Bind(MatchIssues(issues, 1, ScanDirectory(dir), custom_pattern,
                               series_info, NoPass),
                   LAMBDA st :
                      Outcome(st.res, FALSE, TRUE, st.extractions,
                              IF st.cache_entries # <<>> THEN <<st.cache_entries>> ELSE <<>>))

MatchRun(dir, listable, custom_pattern, rows, issues, series_info, use_cache) ==
    IF CacheHit(dir, rows, series_info, use_cache)
    THEN Outcome(CachedResults(get_collection_status_for_series(rows, series_info.id), 1, {}),
                 TRUE, FALSE, <<>>, <<>>)
    ELSE IF ~listable
         THEN Outcome({}, FALSE, TRUE, <<>>, <<>>)
         ELSE Bind(MatchIssues(issues, 1, ScanDirectory(dir), custom_pattern,
                               series_info, NoPass),
                   LAMBDA st :
                      Outcome(st.res, FALSE, TRUE, st.extractions,
                              IF st.cache_entries # <<>> THEN <<st.cache_entries>> ELSE <<>>))

(***************************************************************************)
(* The matcher over time: calls of match_issues_to_collection, and the     *)
(* directory, the template and the permissions changing between them       *)
(***************************************************************************)
MaxMTime == 12
MaxFiles == 3
MaxCalls == 2
MaxEdits == 1

TheU == <<"T", "h", "e", " ", "U">>

SeriesInfos == {[id |-> 7, name |-> TheU], [id |-> None, name |-> TheU]}

Issue(number, id) == [number |-> number, id |-> id]

IssueLists ==
    {<<>>,
     <<Issue(<<"1">>, 101), Issue(<<"0", "2">>, 102)>>,
     <<Issue(<<>>, 103), Issue(<<"1">>, 101), Issue(<<"0", "2">>, None)>>,
     <<Issue(<<"1">>, 101), Issue(<<"0", "2">>, 101)>>}

\* "U 001.cbz", without embedded metadata
FileA == File(<<"U", " ", "0", "0", "1", ".", "c", "b", "z">>, 10, "absent", <<>>, <<>>)
\* "x.cbz", whose ComicInfo.xml names issue 2 of the series
FileB == File(<<"x", ".", "c", "b", "z">>, 10, "info", <<"t", "h", "e", " ", "u">>, <<"2">>)
\* "U #2.cbr", whose modification time is the epoch (0.0)
FileC == File(<<"U", " ", "#", "2", ".", "c", "b", "r">>, 0, "absent", <<>>, <<>>)
\* "U-1.zip", a dangling link: listed, but it cannot be stat'ed
FileD == File(<<"U", "-", "1", ".", "z", "i", "p">>, None, "corrupt", <<>>, <<>>)
\* "z 1.cbz"
FileG == File(<<"z", " ", "1", ".", "c", "b", "z">>, 10, "absent", <<>>, <<>>)
\* "n.txt"
\* "U 1.cbz", whose embedded metadata says series "U", number 2
FileH == File(<<"U", " ", "1", ".", "c", "b", "z">>, 10, "info", <<"U">>, <<"2">>)

FileN == File(<<"n", ".", "t", "x", "t">>, 10, "absent", <<>>, <<>>)

Directories ==
    {<<FileA, FileB>>, <<FileC, FileD>>, <<FileN, FileG, FileA>>}

NewFiles == {FileB, FileC, FileH}

Templates == {<<>>, <<SERIES, " ", ISSUE>>}

\* rows an earlier pass left in the cache: none, or one for an issue that is
\* no longer listed, not found then or matched to a file that is gone
StoredRows ==
    {<<>>,
     <<[series_id |-> 7, issue_id |-> 100, issue_number |-> <<"0">>, found |-> 0,
        file_path |-> NoPath, file_mtime |-> None, matched_via |-> "none"]>>,
     <<[series_id |-> 7, issue_id |-> 100, issue_number |-> <<"0">>, found |-> 1,
        file_path |-> <<"U", " ", "0", ".", "c", "b", "z">>, file_mtime |-> 10,
        matched_via |-> "filename"]>>}

MatchInit ==
    /\ RegistryInit
    /\ PureIdle
    /\ mapped_path \in Directories
    /\ listdir_ok = TRUE
    /\ custom_rename_pattern \in Templates
    /\ collection_status \in StoredRows
    /\ run = NoRun
    /\ changed = FALSE
    /\ calls = 0
    /\ edits = 0

\* one call, from the cache check to the bulk save
match_issues_to_collection(issues, series_info, use_cache) ==
    \E out \in {MatchRun(mapped_path, listdir_ok, custom_rename_pattern,
                        collection_status, issues, series_info, use_cache)} :
       /\ run' = [called |-> TRUE, issues |-> issues, series_info |-> series_info,
                  use_cache |-> use_cache, res |-> out.res, hit |-> out.hit,
                  listed |-> out.listed, extractions |-> out.extractions,
                  saves |-> out.saves,
                  prior |-> [repeat |-> /\ run.called
                                        /\ ~changed
                                        /\ run.issues = issues
                                        /\ run.series_info = series_info
                                        /\ run.use_cache = use_cache,
                             scanned |-> run.listed /\ run.saves # <<>>]]
       /\ collection_status' =
             IF out.saves # <<>>
             THEN save_collection_status_bulk(collection_status, out.saves[1])
             ELSE collection_status
       /\ changed' = FALSE
       /\ calls' = calls + 1
       /\ UNCHANGED <<mapped_path, listdir_ok, custom_rename_pattern, edits>>
       /\ UNCHANGED <<regVars, pureVars>>

\* a file is rewritten: its modification time advances by d seconds
TouchFile(i, d) ==
    /\ i \in DOMAIN mapped_path
    /\ mapped_path[i].mtime # None
    /\ mapped_path[i].mtime + d <= MaxMTime
    /\ mapped_path' = [mapped_path EXCEPT ![i].mtime = @ + d]
    /\ changed' = TRUE
    /\ edits' = edits + 1
    /\ UNCHANGED <<listdir_ok, custom_rename_pattern, collection_status, run, calls>>
    /\ UNCHANGED <<regVars, pureVars>>

\* a file is deleted
RemoveFile(i) ==
    /\ i \in DOMAIN mapped_path
    /\ mapped_path' = [j \in 1..(Len(mapped_path) - 1) |->
                          IF j < i THEN mapped_path[j] ELSE mapped_path[j + 1]]
    /\ changed' = TRUE
    /\ edits' = edits + 1
    /\ UNCHANGED <<listdir_ok, custom_rename_pattern, collection_status, run, calls>>
    /\ UNCHANGED <<regVars, pureVars>>

\* a file is added to the directory
AddFile(f) ==
    /\ Len(mapped_path) < MaxFiles
    /\ FileIndex(mapped_path, f.filename) = 0
    /\ mapped_path' = Append(mapped_path, f)
    /\ changed' = TRUE
    /\ edits' = edits + 1
    /\ UNCHANGED <<listdir_ok, custom_rename_pattern, collection_status, run, calls>>
    /\ UNCHANGED <<regVars, pureVars>>

\* the directory becomes unreadable, or readable again
SetListable(b) ==
    /\ listdir_ok # b
    /\ listdir_ok' = b
    /\ changed' = TRUE
    /\ edits' = edits + 1
    /\ UNCHANGED <<mapped_path, custom_rename_pattern, collection_status, run, calls>>
    /\ UNCHANGED <<regVars, pureVars>>

MatchNext ==
    \/ \E issues \in IssueLists, series_info \in SeriesInfos, use_cache \in BOOLEAN :
          calls < MaxCalls /\ match_issues_to_collection(issues, series_info, use_cache)
    \/ \E i \in 1..MaxFiles, d \in 1..2 : edits < MaxEdits /\ TouchFile(i, d)
    \/ \E i \in 1..MaxFiles : edits < MaxEdits /\ RemoveFile(i)
    \/ \E f \in NewFiles : edits < MaxEdits /\ AddFile(f)
    \/ \E b \in BOOLEAN : edits < MaxEdits /\ SetListable(b)

MatchSpec == MatchInit /\ [][MatchNext]_vars

(***************************************************************************)
(* One pass of the matcher under every kind of naming template and series  *)
(* name: none, well-formed, and one that re.compile rejects                *)
(***************************************************************************)
AllTemplates == Templates \cup {<<SERIES, "[">>, <<"[", ISSUE>>}

AllSeriesInfos == SeriesInfos \cup {[id |-> 7, name |-> <<>>]}

TemplateInit ==
    /\ RegistryInit
    /\ PureIdle
    /\ mapped_path \in Directories
    /\ listdir_ok = TRUE
    /\ custom_rename_pattern \in AllTemplates
    /\ collection_status = <<>>
    /\ run = NoRun
    /\ changed = FALSE
    /\ calls = 0
    /\ edits = 0

TemplateNext ==
    \/ \E issues \in IssueLists, series_info \in AllSeriesInfos :
          calls < 1 /\ match_issues_to_collection(issues, series_info, FALSE)
    \/ \E f \in NewFiles : edits < MaxEdits /\ AddFile(f)

TemplateSpec == TemplateInit /\ [][TemplateNext]_vars

(***************************************************************************)
(* Properties of the operations registry                                   *)
(***************************************************************************)
Range(q) == {q[i] : i \in DOMAIN q}

Terminal(op) == op.status \in {"completed", "error"}

\* C1 as stated: once an operation's status is 'completed' or 'error', no later
\* call changes the status again.
C1_StatusNeverChangesAgain ==
    [][\A id \in OpIds :
          (/\ Has(operations, id)
           /\ Terminal(Get(operations, id))
           /\ Has(operations', id))
          => Get(operations', id).status = Get(operations, id).status]_vars

\* C1 amended: a status that has left 'running' never becomes 'running' again
\* (a later complete call may still turn 'completed' into 'error' or back).
C1_NeverRunningAgain ==
    [][\A id \in OpIds :
          (/\ Has(operations, id)
           /\ Terminal(Get(operations, id))
           /\ Has(operations', id))
          => Terminal(Get(operations', id))]_vars

\* an operation the sweep marked stalled was completed afterwards by its producer
C1_Witness ==
    \E i \in DOMAIN operations :
        /\ operations[i].status = "completed"
        /\ operations[i].detail = "Operation stalled"
        /\ last.op = "complete"
        /\ last.id = operations[i].id

\* C2: complete(id, error) on a known id sets completed_at to the current time and
\* the status to 'completed' or 'error'; on success current becomes the total of
\* that moment, on error current keeps its value.
C2_CompleteSetsFields ==
    [][\A id \in OpIds, e \in BOOLEAN :
          (/\ last'.op \in {"complete", "complete_error"}
           /\ last'.id = id
           /\ Has(operations, id)
           /\ complete_operation(id, e))
          => /\ Has(operations', id)
             /\ Get(operations', id).completed_at = clock
             /\ Get(operations', id).status = (IF e THEN "error" ELSE "completed")
             /\ Get(operations', id).current =
                   (IF e THEN Get(operations, id).current
                         ELSE Get(operations, id).total)
             /\ Get(operations', id).total = Get(operations, id).total]_vars

\* a failed operation that keeps the progress it had: 0 of 1, after time has passed
C2_Witness ==
    /\ last.op = "complete_error"
    /\ last.known
    /\ clock > 0
    /\ Get(operations, last.id).status = "error"
    /\ Get(operations, last.id).completed_at = clock
    /\ Get(operations, last.id).current = 0
    /\ Get(operations, last.id).total = MaxProgress

\* C3: register returns an id that was no key of the registry, adds exactly one
\* record under it (running, current 0, the given total, 'Starting...',
\* started_at = updated_at, completed_at null), changes no other record, and the
\* record is in the result of a list_active that is the next call to return.
C3_RegisterAddsOneRecord ==
    [][\A t \in Threads :
          /\ (pc[t] = "register" /\ register_operation(t)) =>
                /\ ~Has(operations, local[t].op_id)
                /\ Len(operations') = Len(operations) + 1
                /\ SubSeq(operations', 1, Len(operations)) = operations
                /\ last'.id = local[t].op_id
                /\ LET new == operations'[Len(operations')] IN
                      /\ new.id = local[t].op_id
                      /\ new.op_type = local[t].op_type
                      /\ new.label = local[t].label
                      /\ new.status = "running"
                      /\ new.current = 0
                      /\ new.total = local[t].total
                      /\ new.detail = "Starting..."
                      /\ new.started_at = new.updated_at
                      /\ new.completed_at = None
          /\ (pc[t] = "get_active" /\ last.op = "register" /\ get_active_operations(t))
                => last.id \in Range(Values(operations'))]_vars

\* a registration with a total, into a registry that already held a record
C3_Witness ==
    /\ last.op = "register"
    /\ Len(operations) = 2
    /\ operations[2].id = last.id
    /\ operations[2].total = MaxProgress
    /\ operations[1].current = MaxProgress

\* C4: update on a known id changes only the supplied fields among current, total
\* and detail (0 and the empty string are supplied values), refreshes updated_at,
\* and leaves every other field and every other record unchanged.
C4_UpdateChangesOnlySupplied ==
    [][\A id \in OpIds, u \in AllUpdates :
          (/\ last'.op = "update"
           /\ last'.id = id
           /\ Has(operations, id)
           /\ update_operation(id, u[1], u[2], u[3]))
          => /\ Values(operations') = Values(operations)
             /\ \A i \in DOMAIN operations :
                   IF operations[i].id = id
                   THEN operations'[i] =
                          [id |-> id,
                           op_type |-> operations[i].op_type,
                           label |-> operations[i].label,
                           status |-> operations[i].status,
                           current |-> IF u[1] = None THEN operations[i].current ELSE u[1],
                           total |-> IF u[2] = None THEN operations[i].total ELSE u[2],
                           detail |-> IF u[3] = NoDetail THEN operations[i].detail ELSE u[3],
                           started_at |-> operations[i].started_at,
                           updated_at |-> clock,
                           completed_at |-> operations[i].completed_at]
                   ELSE operations'[i] = operations[i]]_vars

\* an update that supplied an empty detail and nothing else, next to another
\* record
C4_Witness ==
    /\ last.op = "update"
    /\ last.known
    /\ Len(operations) = 2
    /\ Get(operations, last.id).detail = ""
    /\ Get(operations, last.id).current = MaxProgress
    /\ Get(operations, last.id).total = MaxProgress
    /\ Get(operations, last.id).updated_at = clock
    /\ Get(operations, last.id).started_at < clock

\* C5: update or complete with an id that is not in the registry returns normally,
\* creates no record and leaves the registry as it was.
C5_UnknownIdIsNoOp ==
    [][\A id \in OpIds :
          (~Has(operations, id) /\ last'.id = id) =>
             /\ \A u \in ProgressUpdates :
                   update_operation(id, u[1], u[2], u[3])
                      => operations' = operations /\ last'.op = "update"
             /\ \A e \in BOOLEAN :
                   complete_operation(id, e)
                      => operations' = operations
                         /\ last'.op \in {"complete", "complete_error"}]_vars

\* an update for an operation that was registered and has been pruned since
C5_Witness ==
    /\ last.op = "update"
    /\ ~last.known
    /\ last.id \in Range(results)
    /\ ~Has(operations, last.id)
    /\ operations # <<>>

\* C6: list_active turns a running operation whose updated_at is more than
\* STALE_TIMEOUT before the call's timestamp into status 'error', detail
\* 'Operation stalled', completed_at set; a running operation updated within the
\* timeout is left as it is.
C6_StaleSweep ==
    [][\A t \in Threads :
          (pc[t] = "get_active" /\ get_active_operations(t)) =>
             \A i \in DOMAIN operations :
                operations[i].status = "running" =>
                   /\ Has(operations', operations[i].id)
                   /\ IF local[t].now - operations[i].updated_at > STALE_TIMEOUT
                      THEN /\ Get(operations', operations[i].id).status = "error"
                           /\ Get(operations', operations[i].id).detail = "Operation stalled"
                           /\ Get(operations', operations[i].id).completed_at # None
                           /\ Get(operations', operations[i].id).completed_at = local[t].now
                      ELSE Get(operations', operations[i].id) = operations[i]]_vars

\* a sweep has marked one operation stalled and left a running one alone
C6_Witness ==
    /\ last.op = "get_active"
    /\ \E i, j \in DOMAIN operations :
          /\ operations[i].status = "error"
          /\ operations[i].detail = "Operation stalled"
          /\ operations[i].completed_at - operations[i].updated_at > STALE_TIMEOUT
          /\ operations[j].status = "running"

\* ids that were inserted and are no longer in the registry
Pruned == Range(results) \ Ids(operations)

\* C7: list_active deletes a completed or failed operation whose completed_at is
\* more than COMPLETED_TTL before the call's timestamp; the operation is absent
\* from the result of that call and of every later one.
C7_ExpiredArePruned ==
    [][/\ \A t \in Threads :
             (pc[t] = "get_active" /\ get_active_operations(t)) =>
                \A i \in DOMAIN operations :
                   (/\ Terminal(operations[i])
                    /\ operations[i].completed_at # None
                    /\ local[t].now - operations[i].completed_at > COMPLETED_TTL)
                   => operations[i].id \notin Range(Values(operations'))
       /\ Pruned \subseteq Pruned']_vars

\* a sweep has deleted an operation and kept another
C7_Witness ==
    /\ last.op = "get_active"
    /\ Pruned # {}
    /\ operations # <<>>

\* C9: an operation whose producer has died is, while the clock advances and
\* list_active is polled, eventually reported with status 'error' and later
\* eventually deleted (each step needs one more advance of the clock).
C9_AbandonedIsResolved ==
    \A id \in OpIds :
        /\ (/\ id \in abandoned
            /\ Has(operations, id)
            /\ Get(operations, id).status = "running"
            /\ ticks < LiveTicks)
              ~> (/\ last.op = "get_active"
                  /\ Has(operations, id)
                  /\ Get(operations, id).status = "error")
        /\ (/\ id \in abandoned
            /\ Has(operations, id)
            /\ Get(operations, id).status = "error"
            /\ ticks < LiveTicks)
              ~> ~Has(operations, id)

\* an abandoned operation has been marked stalled and then deleted, another one
\* is still in the registry
C9_Witness ==
    /\ \E id \in abandoned : id \in Pruned
    /\ operations # <<>>

\* C8: whatever the interleaving of the registering threads, the ids returned are
\* pairwise distinct and the registry holds one record for each of them.
C8_RegistrationsDistinct ==
    /\ \A i, j \in DOMAIN results : i # j => results[i] # results[j]
    /\ Len(operations) = Len(results)
    /\ Ids(operations) = Range(results)

\* every id has been handed out and returned
C8_Witness ==
    /\ Len(results) = MaxOps
    /\ Len(operations) = MaxOps
    /\ \A t \in Threads : pc[t] = "idle"

(***************************************************************************)
(* Properties of the collection matcher                                    *)
(***************************************************************************)
\* a step that is a call of match_issues_to_collection
IsCall == calls' = calls + 1

\* the call made by this step repeats the latest call, with use_cache set,
\* and the directory did not change in between
IsRepeat ==
    /\ IsCall
    /\ run.called
    /\ ~changed
    /\ run.use_cache
    /\ run'.use_cache
    /\ run'.series_info = run.series_info
    /\ run'.issues = run.issues

\* the indices of the issues that have a number
Numbered(issues) == {i \in DOMAIN issues : issues[i].number # <<>>}

\* the pass r staged a row for every issue it answered for, the rows can be
\* validated, and they are the only rows the cache holds for the series
FullyCached(r, rows) ==
    /\ Truthy(r.series_info.id)
    /\ Numbered(r.issues) # {}
    /\ \A i \in Numbered(r.issues) : Truthy(r.issues[i].id)
    /\ \A i, j \in Numbered(r.issues) : i # j => r.issues[i].id # r.issues[j].id
    /\ \A k \in DOMAIN rows :
          rows[k].series_id = r.series_info.id
             => /\ \E i \in Numbered(r.issues) : rows[k].issue_id = r.issues[i].id
                /\ rows[k].file_path # NoPath => rows[k].file_mtime # None

\* C10, as stated: running the matcher twice for the same series with
\* use_cache set and no change of the directory in between, the second run
\* returns the mapping of the first and does no directory listing, no
\* extraction of embedded metadata and no cache write.
C10_SecondRunRepeatsFirst ==
    [][IsRepeat
          => /\ run'.res = run.res
             /\ ~run'.listed
             /\ run'.extractions = <<>>
             /\ run'.saves = <<>>]_vars

\* C10, amended: the same holds when the first run was itself answered from
\* the cache, or when it listed the directory and staged a row for every
\* issue: the series has an id, at least one issue has a number, every issue
\* with a number has an issue id of its own, every matched file's
\* modification time could be read, and the cache holds no rows of the
\* series for other issues.
C10_CachedRunRepeatsFirst ==
    [][(/\ IsRepeat
        /\ \/ run.hit
           \/ run.saves # <<>> /\ FullyCached(run, collection_status))
          => /\ run'.hit
             /\ run'.res = run.res
             /\ ~run'.listed
             /\ run'.extractions = <<>>
             /\ run'.saves = <<>>
             /\ collection_status' = collection_status]_vars

\* a second run answered from the rows a scanning first run saved, one issue
\* found by the pattern tier and one by its embedded metadata
C10_Witness ==
    /\ run.called
    /\ run.prior.repeat
    /\ run.prior.scanned
    /\ run.use_cache
    /\ run.hit
    /\ FullyCached(run, collection_status)
    /\ \E k \in DOMAIN collection_status : collection_status[k].matched_via = "pattern"
    /\ \E k \in DOMAIN collection_status : collection_status[k].matched_via = "comicinfo"

\* the rows the call made by this step reads from the cache
CachedRows == get_collection_status_for_series(collection_status, run'.series_info.id)

\* the call made by this step looks at the cache, and finds rows there
ReadsCache ==
    /\ IsCall
    /\ run'.use_cache
    /\ Truthy(run'.series_info.id)
    /\ CachedRows # <<>>

\* the file of a cached row is gone, or its modification time is more than
\* one second away from the cached one
RowOutdated(row) ==
    /\ row.file_path # NoPath
    /\ \/ ~PathExists(mapped_path, row.file_path)
       \/ /\ row.file_mtime # None
          /\ Abs(GetMTime(mapped_path, row.file_path) - row.file_mtime) > 1

\* C11: the cached results are returned only if every cached file still
\* exists with a modification time within one second of the cached one; if
\* a cached file is missing or its time differs by more than one second,
\* the cached rows are discarded and the directory is scanned afresh.
C11_OutdatedRowForcesRescan ==
    [][ReadsCache
          => /\ run'.hit => \A k \in DOMAIN CachedRows : ~RowOutdated(CachedRows[k])
             /\ (\E k \in DOMAIN CachedRows : RowOutdated(CachedRows[k]))
                   => ~run'.hit /\ run'.listed]_vars

\* the comic files the call made by this step finds in the directory
Scanned == ScanDirectory(mapped_path)

\* the call made by this step lists the directory, and the listing succeeds
IsScan == IsCall /\ run'.listed /\ listdir_ok

\* what each tier, asked on its own, selects among files for an issue number
ByPattern(files, name, num) == PatternTier(files, custom_rename_pattern, name, num)
ByComicInfo(files, name, num) == ComicInfoTier(files, name, num)
ByFilename(files, num) == GenericTier(files, num)

\* the selection of the first tier in the order pattern, embedded metadata,
\* generic filename that selects a file (index 0, tier "none" when none does)
FirstTier(files, name, num) ==
    Bind(ByPattern(files, name, num), LAMBDA a :
       IF a # 0 THEN [idx |-> a, via |-> "pattern"]
       ELSE Bind(ByComicInfo(files, name, num), LAMBDA b :
               IF b # 0 THEN [idx |-> b, via |-> "comicinfo"]
               ELSE Bind(ByFilename(files, num), LAMBDA c :
                       [idx |-> c, via |-> IF c # 0 THEN "filename" ELSE "none"])))

\* the result entry that gives issue number num the file of index idx
Entry(files, num, idx) ==
    [issue_number |-> num, found |-> idx # 0,
     file_path |-> IF idx # 0 THEN files[idx].filename ELSE NoPath]

\* C12: for each issue the tiers are tried in the order pattern, embedded
\* metadata, generic filename, and the first tier that selects a file
\* decides: the result is the pattern tier's file whenever it selects one,
\* whatever the other tiers would select, and the staged row names the tier.
C12_TierPrecedence ==
    [][IsScan
          => \A i \in Numbered(run'.issues) :
                \E sel \in {FirstTier(Scanned, run'.series_info.name,
                                      run'.issues[i].number)} :
                   /\ Entry(Scanned, run'.issues[i].number, sel.idx) \in run'.res
                   /\ \A b \in DOMAIN run'.saves : \A k \in DOMAIN run'.saves[b] :
                         run'.saves[b][k].issue_number = run'.issues[i].number
                            => run'.saves[b][k].matched_via = sel.via]_vars

\* a pass in which the pattern tier and the generic filename tier select
\* different files for an issue, and the pattern tier's file is the result
C12_Witness ==
    /\ run.called /\ run.listed /\ ~changed /\ ~run.hit
    /\ \E i \in Numbered(run.issues) :
          LET files == ScanDirectory(mapped_path)
              num == run.issues[i].number
              a == ByPattern(files, run.series_info.name, num)
              c == ByFilename(files, num)
          IN /\ a # 0 /\ c # 0 /\ a # c
             /\ Entry(files, num, a) \in run.res
    /\ \E k \in DOMAIN collection_status : collection_status[k].matched_via = "pattern"

\* the rows the pass r staged for the cache
Staged(r) == UNION {Range(r.saves[b]) : b \in DOMAIN r.saves}

\* C13: after a pass that scanned the directory, every issue with a
\* non-empty number has exactly one result entry (and there are no other
\* entries); in every result entry and every staged row, found is true
\* exactly when file_path is not null, and exactly when matched_via is not
\* null; an issue that no tier matches has found = false and a null path.
C13_OneEntryPerIssue ==
    [][IsScan
          => /\ \A i \in Numbered(run'.issues) :
                   /\ Cardinality({e \in run'.res :
                                      e.issue_number = run'.issues[i].number}) = 1
                   /\ \E sel \in {FirstTier(Scanned, run'.series_info.name,
                                         run'.issues[i].number)} :
                         sel.idx = 0
                            => Entry(Scanned, run'.issues[i].number, 0) \in run'.res
             /\ \A e \in run'.res :
                   /\ \E i \in Numbered(run'.issues) :
                         e.issue_number = run'.issues[i].number
                   /\ e.found <=> e.file_path # NoPath
             /\ \A row \in Staged(run') :
                   /\ (row.found = 1) <=> (row.file_path # NoPath)
                   /\ (row.found = 1) <=> (row.matched_via # "none")
                   /\ row.found \in {0, 1}]_vars

\* a pass over a list with an issue without number, an issue some tier
\* matches and an issue no tier matches
C13_Witness ==
    /\ run.called /\ run.listed /\ ~run.hit
    /\ \E i \in DOMAIN run.issues : run.issues[i].number = <<>>
    /\ \E e \in run.res : e.found /\ e.file_path # NoPath
    /\ \E e \in run.res : ~e.found /\ e.file_path = NoPath
    /\ \E row \in Staged(run) : row.found = 1 /\ row.matched_via # "none"
    /\ Cardinality(run.res) = 2

\* the issues of the pass r that can be keyed in the cache, in order
Keyed(r) ==
    IF Truthy(r.series_info.id)
    THEN SelectSeq(r.issues, LAMBDA issue : issue.number # <<>> /\ Truthy(issue.id))
    ELSE <<>>

\* C14: a pass that scans the directory makes at most one bulk save, and
\* none when there is nothing to save; the batch holds, in order, exactly
\* one row for every issue that went through matching and has both a series
\* id and an issue id; an issue without issue id, and every issue of a
\* series without id, is in the returned mapping but in no row.  The rows
\* are in the cache afterwards.
C14_OneBulkSave ==
    [][IsScan
          => /\ Len(run'.saves) <= 1
             /\ (run'.saves = <<>>) <=> (Keyed(run') = <<>>)
             /\ \A b \in DOMAIN run'.saves :
                   /\ Len(run'.saves[b]) = Len(Keyed(run'))
                   /\ \A k \in DOMAIN run'.saves[b] :
                         /\ run'.saves[b][k].series_id = run'.series_info.id
                         /\ run'.saves[b][k].issue_id = Keyed(run')[k].id
                         /\ run'.saves[b][k].issue_number = Keyed(run')[k].number
                         /\ \/ run'.saves[b][k] \in Range(collection_status')
                            \/ \E j \in (k + 1)..Len(run'.saves[b]) :
                                  run'.saves[b][j].issue_id = run'.saves[b][k].issue_id
             /\ \A i \in Numbered(run'.issues) :
                   \E e \in run'.res : e.issue_number = run'.issues[i].number
             /\ run'.saves = <<>> => collection_status' = collection_status]_vars

\* a pass that returns two issues and saves the one that has an issue id;
\* the other, and an issue without a number, are in no row
C14_Witness ==
    /\ run.called /\ run.listed /\ ~run.hit
    /\ Len(run.saves) = 1
    /\ Len(run.saves[1]) = 1
    /\ Cardinality(run.res) = 2
    /\ \E i \in Numbered(run.issues) : ~Truthy(run.issues[i].id)
    /\ run.saves[1][1] \in Range(collection_status)

\* what the call made by this step would return if the cache held rows
ResultOver(rows) ==
    MatchRun(mapped_path, listdir_ok, custom_rename_pattern, rows,
             run'.issues, run'.series_info, run'.use_cache).res

\* C15: when use_cache is false or the series has no id, the cache is not
\* read: the call is not answered from the cache, and for the same
\* directory, template and issues it returns the same mapping over an empty
\* cache and over any stored rows as over the cache it ran with.
C15_CacheNotRead ==
    [][(IsCall /\ (~run'.use_cache \/ ~Truthy(run'.series_info.id)))
          => /\ ~run'.hit
             /\ run'.listed
             /\ \A rows \in StoredRows : ResultOver(rows) = run'.res]_vars

\* a call with use_cache false for a series whose cached rows are all
\* valid: the directory is scanned and the cached mapping is not returned
C15_Witness ==
    /\ run.called /\ ~run.use_cache /\ Truthy(run.series_info.id)
    /\ run.listed /\ ~run.hit
    /\ \E e \in run.res : e.found
    /\ \E k \in DOMAIN collection_status :
          collection_status[k].issue_id = 100 /\ collection_status[k].file_path = NoPath
    /\ \A e \in run.res : e.issue_number # <<"0">>

\* C16: if listing the directory fails, the call returns an empty mapping,
\* matches no issue, opens no archive and saves nothing: the rows of the
\* cache stay as they were.
C16_ListingFailure ==
    [][(IsCall /\ run'.listed /\ ~listdir_ok)
          => /\ run'.res = {}
             /\ ~run'.hit
             /\ run'.extractions = <<>>
             /\ run'.saves = <<>>
             /\ collection_status' = collection_status]_vars

\* a call for a series with an id and issues to match, made while the
\* directory cannot be listed and the cache holds rows
C16_Witness ==
    /\ run.called /\ run.listed /\ ~listdir_ok /\ ~changed
    /\ Truthy(run.series_info.id)
    /\ Keyed(run) # <<>>
    /\ collection_status # <<>>
    /\ run.res = {}

\* the naming template yields no pattern for the series of the call made by
\* this step: it is empty, the series has no name, or it does not compile
NoUsableTemplate ==
    \/ custom_rename_pattern = <<>>
    \/ run'.series_info.name = <<>>
    \/ ~Compilable(custom_rename_pattern)

\* C17: with a naming template that cannot be compiled, or an empty
\* template or series name, the compiler returns null for every issue and
\* the pass returns, and stages, for every issue what it does when no
\* template is configured: the embedded-metadata tier and then the generic
\* filename tier decide.
C17_BadTemplateIsNoTemplate ==
    [][(IsScan /\ NoUsableTemplate)
          => /\ \A i \in Numbered(run'.issues) :
                   ~generate_filename_pattern(custom_rename_pattern,
                                              run'.series_info.name,
                                              run'.issues[i].number).ok
             /\ \E plain \in {MatchRun(mapped_path, listdir_ok, <<>>, collection_status,
                                      run'.issues, run'.series_info, run'.use_cache)} :
                   /\ run'.res = plain.res
                   /\ run'.saves = plain.saves
             /\ \A row \in Staged(run') : row.matched_via # "pattern"]_vars

\* a pass under a template that does not compile, for a series with a name:
\* one issue is found by its embedded metadata
C17_Witness ==
    /\ run.called /\ run.listed
    /\ custom_rename_pattern # <<>>
    /\ ~Compilable(custom_rename_pattern)
    /\ run.series_info.name # <<>>
    /\ \E row \in Staged(run) : row.matched_via = "comicinfo"
    /\ \E row \in Staged(run) : row.matched_via = "filename"

(***************************************************************************)
(* Issue numbers: the normalisation applied again and again to a number,   *)
(* and the pattern compiled for it tried on file names                     *)
(***************************************************************************)
MaxLen == 3
MaxApply == 2

NumberChars == {"0", "1", " "}

\* the strings of at most n characters
Strings(chars, n) == UNION {[1..k -> chars] : k \in 0..n}

\* "The U 1.cbz", "U 01.cbz", "U 001.cbz": issue 1 in its three spellings
SpellingNames ==
    {<<"T", "h", "e", " ", "U", " ", "1", ".", "c", "b", "z">>,
     <<"U", " ", "0", "1", ".", "c", "b", "z">>,
     <<"U", " ", "0", "0", "1", ".", "c", "b", "z">>}

\* "U 2.cbz", "U 010.cbz": other issues
OtherNames ==
    {<<"U", " ", "2", ".", "c", "b", "z">>,
     <<"U", " ", "0", "1", "0", ".", "c", "b", "z">>}

NumberInit ==
    /\ RegistryInit
    /\ MatcherIdle
    /\ arg \in Strings(NumberChars, MaxLen)
    /\ ret = [keys |-> <<>>, compiled |-> FALSE, accepted |-> {}]

\* x.strip().lstrip('0') or '0', on the number and then on its own result
normalize_number ==
    /\ Len(ret.keys) < MaxApply
    /\ ret' = [ret EXCEPT !.keys =
                 Append(@, NormalizeNumber(IF @ = <<>> THEN arg ELSE @[Len(@)]))]
    /\ UNCHANGED <<regVars, matchVars, arg>>

\* generate_filename_pattern for the number, and pattern_regex.search on
\* each file name
compile_for_number ==
    /\ ~ret.compiled
    /\ \E pattern_regex \in {generate_filename_pattern(<<SERIES, " ", ISSUE>>, TheU, arg)} :
          ret' = [ret EXCEPT !.compiled = TRUE,
                             !.accepted = {f \in SpellingNames \cup OtherNames :
                                             /\ pattern_regex.ok
                                             /\ Search(pattern_regex.re, f)}]
    /\ UNCHANGED <<regVars, matchVars, arg>>

NumberNext == normalize_number \/ compile_for_number

NumberSpec == NumberInit /\ [][NumberNext]_vars

\* the three spellings of issue 1
Spellings == {<<"1">>, <<"0", "1">>, <<"0", "0", "1">>}

\* in the number, trimmed, whitespace follows directly on the leading zeros
ZerosThenSpace(str) ==
    \E k \in DOMAIN Strip(str) :
       /\ Strip(str)[k] \in Whitespace
       /\ \A j \in 1..(k - 1) : Strip(str)[j] = "0"

\* the spellings of issue 1 have the key "1", and the pattern compiled for
\* any of them accepts the file names carrying each of them
SpellingsAgree ==
    /\ (arg \in Spellings /\ ret.keys # <<>>) => ret.keys[1] = <<"1">>
    /\ (arg \in Spellings /\ ret.compiled) => SpellingNames \subseteq ret.accepted

\* C18, as stated: normalisation maps "1", "01" and "001" to the same key
\* and is idempotent, and the pattern compiled for one spelling accepts a
\* file name carrying any of the others.
C18_NormalizeIdempotent ==
    /\ SpellingsAgree
    /\ Len(ret.keys) = 2 => ret.keys[2] = ret.keys[1]

\* C18, amended: the same, the normalisation being idempotent on the
\* numbers in which no whitespace follows directly on the leading zeros
\* (so on every number without inner whitespace); on the others, such as
\* "0 1", the second application strips the whitespace the first one bared.
C18_NormalizeIdempotentOnPlain ==
    /\ SpellingsAgree
    /\ (Len(ret.keys) = 2 /\ ~ZerosThenSpace(arg)) => ret.keys[2] = ret.keys[1]
    /\ (Len(ret.keys) = 2 /\ ZerosThenSpace(arg)) => ret.keys[2] # ret.keys[1]

\* the number "01", normalised twice to "1", whose pattern accepts the three
\* spellings and rejects the file of issue 2
C18_Witness ==
    /\ arg = <<"0", "1">>
    /\ ret.keys = <<<<"1">>, <<"1">>>>
    /\ ret.compiled
    /\ SpellingNames \subseteq ret.accepted
    /\ <<"U", " ", "2", ".", "c", "b", "z">> \notin ret.accepted

(***************************************************************************)
(* Series names beginning with "The ": the pattern compiled for the name,  *)
(* tried on the file name the template gives with and without the prefix   *)
(***************************************************************************)
NameChars == {"U", "k", " ", "'", "&", ",", "."}

\* "The ", in three letter cases
ThePrefixes == {<<"T", "h", "e", " ">>, <<"t", "h", "e", " ">>, <<"T", "H", "E", " ">>}

NameTemplates == {<<SERIES, " ", ISSUE>>, <<SERIES, " ", "#", ISSUE>>}

\* the file name a template gives for a series name and an issue number
RECURSIVE Render(_, _, _)
Render(template, series_name, issue_number) ==
    IF template = <<>> THEN <<".", "c", "b", "z">>
    ELSE (CASE Head(template) = SERIES -> series_name
            [] Head(template) = ISSUE -> issue_number
            [] Head(template) = YEAR -> <<"2", "0", "1", "5">>
            [] OTHER -> <<Head(template)>>)
         \o Render(Tail(template), series_name, issue_number)

NameInit ==
    /\ RegistryInit
    /\ MatcherIdle
    /\ \E p \in ThePrefixes, rest \in Strings(NameChars, MaxLen), t \in NameTemplates :
          arg = [series_name |-> p \o rest, rest |-> rest, template |-> t]
    /\ ret = <<>>

\* generate_filename_pattern for the series, and pattern_regex.search on the
\* file name with the prefix and on the one without
compile_for_series ==
    /\ ret = <<>>
    /\ \E pattern_regex \in {generate_filename_pattern(arg.template, arg.series_name, <<"1">>)} :
          ret' = <<[ok |-> pattern_regex.ok,
                    kept |-> /\ pattern_regex.ok
                             /\ Search(pattern_regex.re,
                                       Render(arg.template, arg.series_name, <<"1">>)),
                    dropped |-> /\ pattern_regex.ok
                                /\ Search(pattern_regex.re,
                                          Render(arg.template, arg.rest, <<"1">>))]>>
    /\ UNCHANGED <<regVars, matchVars, arg>>

NameNext == compile_for_series

NameSpec == NameInit /\ [][NameNext]_vars

\* C19: for a series name beginning with "The ", in any letter
\* case, the compiled pattern accepts the file name that follows the
\* template with the prefix, and the same file name with the prefix dropped.
C19_ThePrefixOptional ==
    (ret # <<>> /\ HasThePrefix(arg.series_name))
       => ret[1].ok /\ ret[1].kept /\ ret[1].dropped

(***************************************************************************)
(* app_state.py, statement by statement: each call body takes              *)
(* _operations_lock, runs its statements one at a time, and releases the   *)
(* lock when it returns                                                    *)
(***************************************************************************)
\* the arguments (current, total, detail) of update_operation: one field each
FieldUpdates == {<<1, None, NoDetail>>, <<None, None, "Copying...">>}

\* with _operations_lock: the lock is taken when no thread holds it
CanAcquire_nolock(holder) == TRUE

CanAcquire(holder) == holder = None

\* the positions inside a `with _operations_lock:` block
UpdateBody == {"update_current", "update_total", "update_detail", "update_stamp"}

CompleteBody == {"complete_status", "complete_stamp", "complete_current"}

SweepBody == {"mark", "prune"}

Locked == {"register_store", "return"} \cup UpdateBody \cup CompleteBody \cup SweepBody

\* op[...] = ... on the record the thread looked up
Store(ops, id, rec) == IF Has(ops, id) THEN DictSet(ops, id, rec) ELSE ops

Field(ops, id, current, total, detail) ==
    IF Has(ops, id)
    THEN DictSet(ops, id, [Get(ops, id) EXCEPT
                              !.current = IF current # None THEN current ELSE @,
                              !.total = IF total # None THEN total ELSE @,
                              !.detail = IF detail # NoDetail THEN detail ELSE @])
    ELSE ops

\* the arguments of the update that holds the lock, if one does
Overlapped ==
    IF lock # None /\ pc[lock] \in UpdateBody
    THEN <<[op_id |-> frame[lock].op_id, current |-> frame[lock].current,
            total |-> frame[lock].total, detail |-> frame[lock].detail]>>
    ELSE <<>>

\* the thread leaves the `with` block and the call returns
Leave(t, call, registry) ==
    /\ lock' = None
    /\ pc' = [pc EXCEPT ![t] = "idle"]
    /\ frame' = [frame EXCEPT ![t] = NoFrame]
    /\ local' = [local EXCEPT ![t] = NoLocal]
    /\ serial' = registry
    /\ last' = call
    /\ UNCHANGED entered

\* line 30: with _operations_lock
lock_register(t) ==
    /\ pc[t] = "register"
    /\ CanAcquire(lock)
    /\ lock' = t
    /\ entered' = entered + 1
    /\ pc' = [pc EXCEPT ![t] = "register_store"]
    /\ UNCHANGED <<operations, clock, ticks, issued, local, results, last, abandoned>>
    /\ UNCHANGED <<frame, serial, callerVars, routeVars, matchVars, pureVars>>

\* lines 31-43: the insert, and the return
store_register(t) ==
    /\ pc[t] = "register_store"
    /\ \E rec \in {NewOperation(local[t].op_id, local[t].op_type, local[t].label,
                                local[t].total, local[t].now)} :
          /\ operations' = DictSet(operations, rec.id, rec)
          /\ Leave(t, [op |-> "register", id |-> rec.id, known |-> Has(operations, rec.id)],
                   DictSet(serial, rec.id, rec))
          /\ results' = Append(results, rec.id)
    /\ UNCHANGED <<clock, ticks, issued, abandoned, callerVars, routeVars, matchVars, pureVars>>

\* update_operation is called
update_call(t, op_id, current, total, detail) ==
    /\ pc[t] = "idle"
    /\ pc' = [pc EXCEPT ![t] = "update"]
    /\ frame' = [frame EXCEPT ![t] = [NoFrame EXCEPT !.op_id = op_id, !.current = current,
                                                     !.total = total, !.detail = detail,
                                                     !.overlapped = Overlapped]]
    /\ UNCHANGED <<operations, clock, ticks, issued, local, results, last, abandoned>>
    /\ UNCHANGED <<lock, serial, entered, callerVars, routeVars, matchVars, pureVars>>

\* lines 48-51: the lock, the lookup, and the return when the id is absent
lock_update(t) ==
    /\ pc[t] = "update"
    /\ CanAcquire(lock)
    /\ lock' = t
    /\ entered' = entered + 1
    /\ frame' = [frame EXCEPT ![t].found = Has(operations, frame[t].op_id)]
    /\ pc' = [pc EXCEPT ![t] = IF Has(operations, frame[t].op_id)
                                THEN "update_current" ELSE "return"]
    /\ UNCHANGED <<operations, clock, ticks, issued, local, results, last, abandoned>>
    /\ UNCHANGED <<serial, callerVars, routeVars, matchVars, pureVars>>

\* lines 52-53
update_current(t) ==
    /\ pc[t] = "update_current"
    /\ operations' = Field(operations, frame[t].op_id, frame[t].current, None, NoDetail)
    /\ pc' = [pc EXCEPT ![t] = "update_total"]
    /\ UNCHANGED <<clock, ticks, issued, local, results, last, abandoned>>
    /\ UNCHANGED <<lockVars, callerVars, routeVars, matchVars, pureVars>>

\* lines 54-55
update_total(t) ==
    /\ pc[t] = "update_total"
    /\ operations' = Field(operations, frame[t].op_id, None, frame[t].total, NoDetail)
    /\ pc' = [pc EXCEPT ![t] = "update_detail"]
    /\ UNCHANGED <<clock, ticks, issued, local, results, last, abandoned>>
    /\ UNCHANGED <<lockVars, callerVars, routeVars, matchVars, pureVars>>

\* lines 56-57
update_detail(t) ==
    /\ pc[t] = "update_detail"
    /\ operations' = Field(operations, frame[t].op_id, None, None, frame[t].detail)
    /\ pc' = [pc EXCEPT ![t] = "update_stamp"]
    /\ UNCHANGED <<clock, ticks, issued, local, results, last, abandoned>>
    /\ UNCHANGED <<lockVars, callerVars, routeVars, matchVars, pureVars>>

\* line 58, and the return
update_stamp(t) ==
    /\ pc[t] = "update_stamp"
    /\ operations' =
          IF Has(operations, frame[t].op_id)
          THEN Store(operations, frame[t].op_id,
                     [Get(operations, frame[t].op_id) EXCEPT !.updated_at = clock])
          ELSE operations
    /\ Leave(t, [op |-> "update", id |-> frame[t].op_id, known |-> frame[t].found,
                 current |-> frame[t].current, total |-> frame[t].total,
                 detail |-> frame[t].detail, overlapped |-> frame[t].overlapped],
             update_body(serial, frame[t].op_id, frame[t].current, frame[t].total,
                         frame[t].detail, clock))
    /\ UNCHANGED <<clock, ticks, issued, results, abandoned, callerVars, routeVars, matchVars, pureVars>>

\* complete_operation is called
complete_call(t, op_id, error) ==
    /\ pc[t] = "idle"
    /\ pc' = [pc EXCEPT ![t] = "complete"]
    /\ frame' = [frame EXCEPT ![t] = [NoFrame EXCEPT !.op_id = op_id, !.error = error]]
    /\ UNCHANGED <<operations, clock, ticks, issued, local, results, last, abandoned>>
    /\ UNCHANGED <<lock, serial, entered, callerVars, routeVars, matchVars, pureVars>>

\* lines 63-66: the lock, the lookup, and the return when the id is absent
lock_complete(t) ==
    /\ pc[t] = "complete"
    /\ CanAcquire(lock)
    /\ lock' = t
    /\ entered' = entered + 1
    /\ frame' = [frame EXCEPT ![t].found = Has(operations, frame[t].op_id)]
    /\ pc' = [pc EXCEPT ![t] = IF Has(operations, frame[t].op_id)
                                THEN "complete_status" ELSE "return"]
    /\ UNCHANGED <<operations, clock, ticks, issued, local, results, last, abandoned>>
    /\ UNCHANGED <<serial, callerVars, routeVars, matchVars, pureVars>>

\* line 67
complete_status(t) ==
    /\ pc[t] = "complete_status"
    /\ operations' =
          IF Has(operations, frame[t].op_id)
          THEN Store(operations, frame[t].op_id,
                     [Get(operations, frame[t].op_id) EXCEPT
                         !.status = IF frame[t].error THEN "error" ELSE "completed"])
          ELSE operations
    /\ pc' = [pc EXCEPT ![t] = "complete_stamp"]
    /\ UNCHANGED <<clock, ticks, issued, local, results, last, abandoned>>
    /\ UNCHANGED <<lockVars, callerVars, routeVars, matchVars, pureVars>>

\* line 68
complete_stamp_skip(t) ==
    /\ pc[t] = "complete_stamp"
    /\ operations' = operations
    /\ frame' = [frame EXCEPT ![t].stamp = clock]
    /\ pc' = [pc EXCEPT ![t] = "complete_current"]
    /\ UNCHANGED <<clock, ticks, issued, local, results, last, abandoned>>
    /\ UNCHANGED <<lock, serial, entered, callerVars, routeVars, matchVars, pureVars>>

complete_stamp(t) ==
    /\ pc[t] = "complete_stamp"
    /\ operations' =
          IF Has(operations, frame[t].op_id)
          THEN Store(operations, frame[t].op_id,
                     [Get(operations, frame[t].op_id) EXCEPT !.completed_at = clock])
          ELSE operations
    /\ frame' = [frame EXCEPT ![t].stamp = clock]
    /\ pc' = [pc EXCEPT ![t] = "complete_current"]
    /\ UNCHANGED <<clock, ticks, issued, local, results, last, abandoned>>
    /\ UNCHANGED <<lock, serial, entered, callerVars, routeVars, matchVars, pureVars>>

\* lines 69-70, and the return
complete_current(t) ==
    /\ pc[t] = "complete_current"
    /\ operations' =
          IF Has(operations, frame[t].op_id) /\ ~frame[t].error
          THEN Store(operations, frame[t].op_id,
                     [Get(operations, frame[t].op_id) EXCEPT
                         !.current = Get(operations, frame[t].op_id).total])
          ELSE operations
    /\ Leave(t, [op |-> IF frame[t].error THEN "complete_error" ELSE "complete",
                 id |-> frame[t].op_id, known |-> frame[t].found],
             complete_body(serial, frame[t].op_id, frame[t].error, frame[t].stamp))
    /\ UNCHANGED <<clock, ticks, issued, results, abandoned, callerVars, routeVars, matchVars, pureVars>>

\* lines 51 and 66: return, the id being absent
return_absent(t) ==
    /\ pc[t] = "return"
    /\ Leave(t, [op |-> "absent", id |-> frame[t].op_id, known |-> FALSE], serial)
    /\ UNCHANGED <<operations, clock, ticks, issued, results, abandoned>>
    /\ UNCHANGED <<callerVars, routeVars, matchVars, pureVars>>

\* line 76: with _operations_lock
lock_get_active(t) ==
    /\ pc[t] = "get_active"
    /\ CanAcquire(lock)
    /\ lock' = t
    /\ entered' = entered + 1
    /\ frame' = [frame EXCEPT ![t].i = 1]
    /\ pc' = [pc EXCEPT ![t] = "mark"]
    /\ UNCHANGED <<operations, clock, ticks, issued, local, results, last, abandoned>>
    /\ UNCHANGED <<serial, callerVars, routeVars, matchVars, pureVars>>

\* lines 78-82: one turn of the first loop
mark_stale(t) ==
    /\ pc[t] = "mark"
    /\ frame[t].i <= Len(operations)
    /\ operations' =
          [operations EXCEPT ![frame[t].i] =
              IF IsStale(@, local[t].now)
              THEN [@ EXCEPT !.status = "error", !.completed_at = local[t].now,
                             !.detail = "Operation stalled"]
              ELSE @]
    /\ frame' = [frame EXCEPT ![t].i = @ + 1]
    /\ UNCHANGED <<clock, ticks, issued, pc, local, results, last, abandoned>>
    /\ UNCHANGED <<lock, serial, entered, callerVars, routeVars, matchVars, pureVars>>

\* lines 85-90: the first loop is over; the list `expired`
collect_expired(t) ==
    /\ pc[t] = "mark"
    /\ frame[t].i > Len(operations)
    /\ frame' = [frame EXCEPT ![t].expired =
                    Values(SelectSeq(operations, LAMBDA op : IsExpired(op, local[t].now)))]
    /\ pc' = [pc EXCEPT ![t] = "prune"]
    /\ UNCHANGED <<operations, clock, ticks, issued, local, results, last, abandoned>>
    /\ UNCHANGED <<lock, serial, entered, callerVars, routeVars, matchVars, pureVars>>

\* lines 91-92: one turn of the second loop
delete_expired(t) ==
    /\ pc[t] = "prune"
    /\ frame[t].expired # <<>>
    /\ operations' = SelectSeq(operations, LAMBDA op : op.id # Head(frame[t].expired))
    /\ frame' = [frame EXCEPT ![t].expired = Tail(@)]
    /\ UNCHANGED <<clock, ticks, issued, pc, local, results, last, abandoned>>
    /\ UNCHANGED <<lock, serial, entered, callerVars, routeVars, matchVars, pureVars>>

\* line 93: the second loop is over; the return
return_active(t) ==
    /\ pc[t] = "prune"
    /\ frame[t].expired = <<>>
    /\ Leave(t, [op |-> "get_active", id |-> None, known |-> FALSE,
                 listed |-> Values(operations)],
             Prune(MarkStale(serial, local[t].now), local[t].now))
    /\ UNCHANGED <<operations, clock, ticks, issued, results, abandoned>>
    /\ UNCHANGED <<callerVars, routeVars, matchVars, pureVars>>

LockNext ==
    \/ ticks < MaxTicks /\ Tick(STALE_TIMEOUT + 1)
    \/ \E t \in Threads, ty \in OpTypes, lb \in Labels :
          register_call(t, ty, lb, MaxProgress)
    \/ \E t \in Threads : entered < MaxEntered /\ lock_register(t)
    \/ \E t \in Threads : store_register(t)
    \/ \E t \in Threads, id \in OpIds, u \in FieldUpdates :
          update_call(t, id, u[1], u[2], u[3])
    \/ \E t \in Threads : entered < MaxEntered /\ lock_update(t)
    \/ \E t \in Threads : update_current(t)
    \/ \E t \in Threads : update_total(t)
    \/ \E t \in Threads : update_detail(t)
    \/ \E t \in Threads : update_stamp(t)
    \/ \E t \in Threads, id \in OpIds, e \in BOOLEAN : complete_call(t, id, e)
    \/ \E t \in Threads : entered < MaxEntered /\ lock_complete(t)
    \/ \E t \in Threads : complete_status(t)
    \/ \E t \in Threads : complete_stamp(t)
    \/ \E t \in Threads : complete_current(t)
    \/ \E t \in Threads : return_absent(t)
    \/ \E t \in Threads : get_active_call(t)
    \/ \E t \in Threads : entered < MaxEntered /\ lock_get_active(t)
    \/ \E t \in Threads : mark_stale(t)
    \/ \E t \in Threads : collect_expired(t)
    \/ \E t \in Threads : delete_expired(t)
    \/ \E t \in Threads : return_active(t)

LockSpec == Init /\ [][LockNext]_vars

InBody(t) == pc[t] \in Locked

\* C20: register, update, complete and list_active each take effect atomically
\* under the one registry lock: at most one thread is inside a call body, so no
\* call sees a sweep half done, and whenever no thread is inside one the
\* registry is the one the returned calls give when run one after another in
\* the order they took the lock.
C20_CallsAreAtomic ==
    /\ Cardinality({t \in Threads : InBody(t)}) <= 1
    /\ \A t \in Threads : InBody(t) => lock = t
    /\ (\A t \in Threads : ~InBody(t)) => operations = serial

\* an update of `detail` was called while an update of `current` of the same
\* operation held the lock; both have returned and both fields are set
C20_Witness ==
    /\ \A t \in Threads : pc[t] = "idle"
    /\ last.op = "update" /\ last.known
    /\ last.detail = "Copying..." /\ last.current = None
    /\ last.overlapped # <<>>
    /\ last.overlapped[1].op_id = last.id
    /\ last.overlapped[1].current = 1
    /\ Get(operations, last.id).current = 1
    /\ Get(operations, last.id).detail = "Copying..."
    /\ operations = serial

(***************************************************************************)
(* Properties of the list get_active_operations returns                    *)
(***************************************************************************)
\* C21: the list returned is a snapshot: an update, a completion or a later
\* sweep made after the call returned changes no record of the list the
\* caller already holds.
C21_ReturnedListIsSnapshot ==
    [][\A id \in Range(held) :
          (Has(operations, id) /\ Has(operations', id))
             => Get(operations', id) = Get(operations, id)]_vars


\* the step in which thread t returns from get_active_operations
Returns(t) == pc[t] = "get_active" /\ pc'[t] = "idle"

\* C22: get_active_operations returns exactly the records left after its two
\* sweeps: each is running and was updated no more than STALE_TIMEOUT before
\* the call's time stamp, or is terminal and was completed no more than
\* COMPLETED_TTL before it; the call deletes no running operation, and no
\* step deletes a record that is not terminal.
C22_ReturnsSurvivors ==
    [][/\ \A t \in Threads :
             Returns(t) =>
                /\ held' = Values(operations')
                /\ \A i \in DOMAIN operations' :
                      \/ /\ operations'[i].status = "running"
                         /\ local[t].now - operations'[i].updated_at <= STALE_TIMEOUT
                      \/ /\ Terminal(operations'[i])
                         /\ operations'[i].completed_at # None
                         /\ local[t].now - operations'[i].completed_at <= COMPLETED_TTL
                /\ \A i \in DOMAIN operations :
                      operations[i].status = "running" => Has(operations', operations[i].id)
       /\ \A i \in DOMAIN operations :
             ~Has(operations', operations[i].id) => Terminal(operations[i])]_vars

\* a poll has just returned one running record, having deleted another
C22_Witness ==
    /\ last.op = "get_active"
    /\ Len(held) = 1
    /\ held = Values(operations)
    /\ operations[1].status = "running"
    /\ Pruned # {}


\* C23: pruning and stale detection happen only inside get_active_operations:
\* a step of register, update or complete deletes no record and changes no
\* record but the one it was called for, which it does not mark stalled; so
\* between two polls the set of ids in the registry never shrinks.
C23_OnlyPollSweeps ==
    [][(\A t \in Threads : ~Returns(t)) =>
          /\ Ids(operations) \subseteq Ids(operations')
          /\ \A i \in DOMAIN operations :
                /\ operations[i].id # last'.id => operations'[i] = operations[i]
                /\ operations'[i].detail = "Operation stalled"
                      => operations[i].detail = "Operation stalled"]_vars

\* update_operation has just returned while one record is overdue for the
\* stale mark and another for pruning: both are still there, untouched
C23_Witness ==
    /\ last.op = "update" /\ last.known
    /\ \E i \in DOMAIN operations :
          operations[i].id # last.id /\ IsStale(operations[i], clock)
    /\ \E i \in DOMAIN operations : IsExpired(operations[i], clock)


PollTimes == {clock} \cup {clock + d : d \in TickSteps}

\* C25: update does not look at the status: on an operation that is already
\* completed or failed (one the sweep marked stalled too) it overwrites the
\* supplied current, total and detail and refreshes updated_at, and changes
\* neither status nor completed_at, so the operation is not revived and is
\* pruned when it would have been.
C25_UpdateAfterEnd ==
    [][\A id \in OpIds, u \in LateUpdates :
          (/\ last'.op = "update"
           /\ last'.id = id
           /\ Has(operations, id)
           /\ Terminal(Get(operations, id))
           /\ update_operation(id, u[1], u[2], u[3]))
          => /\ Has(operations', id)
             /\ Get(operations', id).status = Get(operations, id).status
             /\ Get(operations', id).completed_at = Get(operations, id).completed_at
             /\ Get(operations', id).updated_at = clock
             /\ u[1] # None => Get(operations', id).current = u[1]
             /\ u[2] # None => Get(operations', id).total = u[2]
             /\ u[3] # NoDetail => Get(operations', id).detail = u[3]
             /\ \A now \in PollTimes :
                   IsExpired(Get(operations', id), now)
                      <=> IsExpired(Get(operations, id), now)]_vars

\* a completed operation whose producer reported again later: current is no
\* longer the total
C25_Witness ==
    /\ last.op = "update" /\ last.known
    /\ Get(operations, last.id).status = "completed"
    /\ Get(operations, last.id).current = 0
    /\ Get(operations, last.id).total = MaxProgress
    /\ Get(operations, last.id).detail = "Copying..."
    /\ Get(operations, last.id).updated_at > Get(operations, last.id).completed_at


\* C26: an operation that a call of get_active_operations marks stalled is in
\* the result of that same call and is not deleted by it; it is deleted only
\* by a call whose time stamp is more than COMPLETED_TTL after that of the
\* call that marked it.
C26_StalledIsReportedFirst ==
    [][/\ \A t \in Threads :
             Returns(t) =>
                \A i \in DOMAIN operations :
                   (/\ operations[i].status = "running"
                    /\ local[t].now - operations[i].updated_at > STALE_TIMEOUT)
                   => /\ operations[i].id \in Range(held')
                      /\ Has(operations', operations[i].id)
                      /\ Get(operations', operations[i].id).status = "error"
                      /\ Get(operations', operations[i].id).detail = "Operation stalled"
                      /\ [id |-> operations[i].id, at |-> local[t].now] \in noted'
       /\ \A n \in noted :
             (Has(operations, n.id) /\ ~Has(operations', n.id))
                => \E t \in Threads : Returns(t) /\ local[t].now - n.at > COMPLETED_TTL]_vars

\* an operation that was returned stalled by one poll has been deleted by a
\* later one, which returned another operation
C26_Witness ==
    /\ last.op = "get_active"
    /\ \E n \in noted : ~Has(operations, n.id) /\ clock - n.at > COMPLETED_TTL
    /\ held # <<>>


(***************************************************************************)
(* The thresholds met exactly: a poll of the registry after exactly        *)
(* COMPLETED_TTL or STALE_TIMEOUT seconds, a cached file rewritten one     *)
(* second earlier or later                                                 *)
(***************************************************************************)
EdgeSteps == {COMPLETED_TTL, STALE_TIMEOUT}

EdgeTouches == {-1, 1, 2}

EdgeInit ==
    /\ RegistryInit
    /\ PureIdle
    /\ mapped_path = <<FileA, FileB>>
    /\ listdir_ok = TRUE
    /\ custom_rename_pattern = <<SERIES, " ", ISSUE>>
    /\ collection_status = <<>>
    /\ run = NoRun
    /\ changed = FALSE
    /\ calls = 0
    /\ edits = 0

EdgeNext ==
    \/ \E d \in EdgeSteps : ticks < MaxTicks /\ Tick(d)
    \/ \E t \in Threads, ty \in OpTypes, lb \in Labels :
          register_call(t, ty, lb, MaxProgress)
    \/ \E t \in Threads : register_operation(t)
    \/ \E id \in OpIds : complete_operation(id, FALSE)
    \/ \E t \in Threads : get_active_call(t)
    \/ \E t \in Threads : get_active_operations(t)
    \/ calls < MaxCalls
          /\ match_issues_to_collection(<<Issue(<<"1">>, 101), Issue(<<"0", "2">>, 102)>>,
                                        [id |-> 7, name |-> TheU], TRUE)
    \/ \E i \in 1..MaxFiles, d \in EdgeTouches : edits < MaxEdits /\ TouchFile(i, d)

EdgeSpec == EdgeInit /\ [][EdgeNext]_vars

\* the distance between a cached row's time and the time its file has now
Drift(row) == Abs(GetMTime(mapped_path, row.file_path) - row.file_mtime)

\* C27: both thresholds of the registry are strict, and so is the one of the
\* cache: a poll leaves alone a running operation last updated exactly
\* STALE_TIMEOUT before its time stamp, and keeps a terminal operation
\* completed exactly COMPLETED_TTL before it; cached rows whose files are
\* all within one second of the cached time, one of them exactly one second
\* away, are still valid and are returned without a scan.
C27_ThresholdsAreStrict ==
    [][/\ \A t \in Threads :
             Returns(t) =>
                \A i \in DOMAIN operations :
                   /\ (/\ operations[i].status = "running"
                       /\ local[t].now - operations[i].updated_at = STALE_TIMEOUT)
                      => /\ Has(operations', operations[i].id)
                         /\ Get(operations', operations[i].id) = operations[i]
                   /\ (/\ Terminal(operations[i])
                       /\ local[t].now - operations[i].completed_at = COMPLETED_TTL)
                      => Has(operations', operations[i].id)
       /\ (/\ ReadsCache
           /\ \A k \in DOMAIN CachedRows :
                 CachedRows[k].file_path # NoPath
                    => /\ PathExists(mapped_path, CachedRows[k].file_path)
                       /\ CachedRows[k].file_mtime # None
                       /\ Drift(CachedRows[k]) <= 1
           /\ \E k \in DOMAIN CachedRows :
                 CachedRows[k].file_path # NoPath /\ Drift(CachedRows[k]) = 1)
          => run'.hit /\ ~run'.listed]_vars

\* a poll made exactly STALE_TIMEOUT after two registrations deleted the
\* completed one and left the other running; a cached file was rewritten one
\* second earlier and the next call returned the cached rows
C27_Witness ==
    /\ clock = STALE_TIMEOUT
    /\ Len(results) = 2
    /\ Has(operations, results[1]) /\ ~Has(operations, results[2])
    /\ Get(operations, results[1]).status = "running"
    /\ Get(operations, results[1]).updated_at = 0
    /\ run.called /\ run.hit
    /\ \E k \in DOMAIN collection_status :
          /\ collection_status[k].file_path # NoPath
          /\ GetMTime(mapped_path, collection_status[k].file_path)
                = collection_status[k].file_mtime - 1


(***************************************************************************)
(* Properties of the order in which the files are tried                    *)
(***************************************************************************)
\* the positions, in the listing, of the files each tier accepts for an issue
PatternMatches(files, name, num) ==
    IF custom_rename_pattern = <<>> \/ name = <<>> THEN {}
    ELSE Bind(generate_filename_pattern(custom_rename_pattern, name, num),
              LAMBDA p : IF p.ok
                         THEN {k \in DOMAIN files : Search(p.re, files[k].filename)}
                         ELSE {})

InfoMatches(files, name, num) ==
    {k \in DOMAIN files : ComicInfoMatches(extract_comicinfo(files[k]), name, num)}

GenericMatches(files, num) ==
    Bind(GenericPatterns(NormalizeNumber(num)),
         LAMBDA ps : {k \in DOMAIN files :
                         \E p \in 1..2 : Search(ps[p], files[k].filename)})

Candidates(files, name, num) ==
    <<PatternMatches(files, name, num), InfoMatches(files, name, num),
      GenericMatches(files, num)>>

\* the comic files in the order of the listing
Listing == SelectSeq(mapped_path, LAMBDA f : HasExtension(f.filename, comic_extensions))

\* C28: within a tier the files are tried in the order of the directory
\* listing and the first one the tier accepts is chosen; all three tiers use
\* that order, and the files are never sorted.
C28_ListingOrder ==
    [][IsScan
          => \A i \in Numbered(run'.issues) :
                \E c \in {Candidates(Listing, run'.series_info.name,
                                     run'.issues[i].number)} :
                   \A x \in 1..3 :
                      (c[x] # {} /\ \A y \in 1..(x - 1) : c[y] = {})
                         => \E k \in c[x] :
                               /\ \A j \in c[x] : k <= j
                               /\ Entry(Listing, run'.issues[i].number, k) \in run'.res]_vars

\* the listing has "z 1.cbz" before "U 001.cbz"; without a template both are
\* accepted by the generic tier for issue 1, and "z 1.cbz" is the result
C28_Witness ==
    /\ run.called /\ run.listed /\ ~run.hit /\ ~changed
    /\ custom_rename_pattern = <<>>
    /\ mapped_path = <<FileN, FileG, FileA>>
    /\ {1, 2} \subseteq GenericMatches(Listing, <<"1">>)
    /\ Entry(Listing, <<"1">>, 1) \in run.res


(***************************************************************************)
(* Properties of the embedded-metadata tier                                *)
(***************************************************************************)
\* the positions of the files whose metadata the tier asks for when it is
\* tried for an issue: none if the pattern tier accepts a file, else every
\* file up to the first one the metadata tier accepts
Reached(files, name, num) ==
    IF PatternMatches(files, name, num) # {} THEN {}
    ELSE Bind(InfoMatches(files, name, num),
              LAMBDA S : IF S = {} THEN DOMAIN files
                         ELSE {k \in DOMAIN files : \A j \in S : k <= j})

\* C29: embedded metadata is extracted lazily: in one pass extract_comicinfo
\* is called at most once per file, a failed or empty extraction included,
\* and only for a file the embedded-metadata tier reaches for some issue the
\* pattern tier did not match; if the pattern tier matches every issue, no
\* file is opened.
C29_LazyExtraction ==
    [][IsScan
          => \E reached \in {UNION {Reached(Listing, run'.series_info.name,
                                            run'.issues[i].number) :
                                       i \in Numbered(run'.issues)}} :
                /\ \A a, b \in DOMAIN run'.extractions :
                      a # b => run'.extractions[a] # run'.extractions[b]
                /\ Range(run'.extractions) \subseteq {Listing[k].filename : k \in reached}
                /\ reached = {} => run'.extractions = <<>>]_vars

\* without a template two issues both reach "U 001.cbz", which has no
\* metadata, and each of the two files was opened once
C29_Witness ==
    /\ run.called /\ run.listed /\ ~run.hit /\ ~changed
    /\ custom_rename_pattern = <<>>
    /\ mapped_path = <<FileA, FileB>>
    /\ Cardinality(Numbered(run.issues)) = 2
    /\ \A i \in Numbered(run.issues) :
          1 \in Reached(Listing, run.series_info.name, run.issues[i].number)
    /\ run.extractions = <<FileA.filename, FileB.filename>>
    /\ run.prior.scanned


(***************************************************************************)
(* The embedded-metadata tier on one file: the file's metadata, the        *)
(* canonical series name and the issue number drawn from small sets        *)
(***************************************************************************)
InfoSeriesChars == {"U", "u", "x"}

InfoSeriesLen == 2

InfoNumbers ==
    {<<>>, <<"1">>, <<"0", "1">>, <<" ", "1">>, <<"1", " ">>, <<"0">>, <<"0", "0">>,
     <<" ">>, <<"2">>}

\* str(issue.number), never empty past line 231
IssueNumbers == {<<"1">>, <<"0", "0", "1">>, <<"0">>, <<"2">>, <<" ", "1">>}

CanonicalNames == {<<>>, <<"U">>, <<"u", "x">>, <<"x", "U">>}

InfoFileNames == {<<"x", ".", "c", "b", "z">>, <<"x", ".", "c", "b", "r">>}

InfoKinds == {"info", "corrupt"}

InfoInit ==
    /\ RegistryInit
    /\ MatcherIdle
    /\ \E n \in InfoFileNames, k \in InfoKinds, s \in Strings(InfoSeriesChars, InfoSeriesLen),
          num \in InfoNumbers, name \in CanonicalNames, issue_num \in IssueNumbers :
          arg = [file |-> File(n, 10, k, s, num), series_name |-> name,
                 issue_num |-> issue_num]
    /\ ret = <<>>

\* lines 251-269 on a directory of one file: 1 when the tier takes the file
probe_comicinfo ==
    /\ ret = <<>>
    /\ \E hit \in {ComicInfoTier(<<arg.file>>, arg.series_name, arg.issue_num)} :
          ret' = <<hit>>
    /\ UNCHANGED <<regVars, matchVars, arg>>

InfoNext == probe_comicinfo

InfoSpec == InfoInit /\ [][InfoNext]_vars

\* a occurs in b at some offset
OccursIn(a, b) ==
    \E off \in 0..Len(b) :
       /\ off + Len(a) <= Len(b)
       /\ \A j \in 1..Len(a) : b[off + j] = a[j]

\* the metadata read from the file, if the file is a readable .cbz or .zip
Embedded(file) ==
    /\ file.ci.kind = "info"
    /\ \E e \in {<<".", "c", "b", "z">>, <<".", "z", "i", "p">>} :
          EndsWith(Lower(file.filename), e)

\* C30: the embedded-metadata tier matches a file to an issue exactly when
\* the file has an embedded number whose normalized form equals the issue's
\* normalized number and the embedded series name is empty or, compared
\* without regard to letter case, contains the canonical series name or is
\* contained in it.
C30_InfoTierExact ==
    ret # <<>>
       => (ret[1] = 1
             <=> /\ Embedded(arg.file)
                 /\ arg.file.ci.number # <<>>
                 /\ NormalizeNumber(arg.file.ci.number) = NormalizeNumber(arg.issue_num)
                 /\ \/ arg.file.ci.series = <<>>
                    \/ OccursIn(Lower(arg.series_name), Lower(arg.file.ci.series))
                    \/ OccursIn(Lower(arg.file.ci.series), Lower(arg.series_name)))

\* the file's metadata says series "u", number "01"; issue 001 of "xU" is
\* matched to it because "u" is contained in "xu"
C30_Witness ==
    /\ ret = <<1>>
    /\ Embedded(arg.file)
    /\ arg.file.ci.series = <<"u">>
    /\ arg.file.ci.number = <<"0", "1">>
    /\ arg.series_name = <<"x", "U">>
    /\ arg.issue_num = <<"0", "0", "1">>


(***************************************************************************)
(* Files without usable embedded metadata                                  *)
(***************************************************************************)
\* the files of the listing that are readable .cbz or .zip archives with a
\* ComicInfo.xml whose number and series fit the issue
WithFittingInfo(files, name, num) ==
    {k \in DOMAIN files :
        /\ Embedded(files[k])
        /\ files[k].ci.number # <<>>
        /\ NormalizeNumber(files[k].ci.number) = NormalizeNumber(num)
        /\ \/ files[k].ci.series = <<>>
           \/ OccursIn(Lower(name), Lower(files[k].ci.series))
           \/ OccursIn(Lower(files[k].ci.series), Lower(name))}

\* C31: a corrupt or unreadable archive, a file that is not .cbz or .zip and
\* an archive without ComicInfo.xml count as files without embedded
\* metadata: the pass completes, the embedded-metadata tier never matches
\* such a file, it goes on to the files after it, and when it matches none
\* the issue gets what the generic filename tier selects.
C31_NoMetadataFallsThrough ==
    [][IsScan
          => \A i \in Numbered(run'.issues) :
                PatternMatches(Listing, run'.series_info.name, run'.issues[i].number) = {}
                   => \E good \in {WithFittingInfo(Listing, run'.series_info.name,
                                                   run'.issues[i].number)} :
                         IF good # {}
                         THEN \E k \in good :
                                 /\ \A j \in good : k <= j
                                 /\ Entry(Listing, run'.issues[i].number, k) \in run'.res
                         ELSE Entry(Listing, run'.issues[i].number,
                                    ByFilename(Listing, run'.issues[i].number))
                                 \in run'.res]_vars

\* without a template "U 001.cbz", an archive without ComicInfo.xml, is
\* asked first for both issues: issue 02 is still matched to "x.cbz" by its
\* metadata, and issue 1, which no metadata fits, gets "U 001.cbz" from the
\* generic tier
C31_Witness ==
    /\ run.called /\ run.listed /\ ~run.hit /\ ~changed
    /\ custom_rename_pattern = <<>>
    /\ mapped_path = <<FileA, FileB>>
    /\ ~Embedded(Listing[1])
    /\ WithFittingInfo(Listing, run.series_info.name, <<"0", "2">>) = {2}
    /\ WithFittingInfo(Listing, run.series_info.name, <<"1">>) = {}
    /\ Entry(Listing, <<"0", "2">>, 2) \in run.res
    /\ Entry(Listing, <<"1">>, 1) \in run.res
    /\ run.extractions = <<FileA.filename, FileB.filename>>
    /\ ~run.prior.scanned


(***************************************************************************)
(* Files whose modification time cannot be read: os.path.getmtime raises   *)
(* OSError for them during the scan                                        *)
(***************************************************************************)
\* from now on the file cannot be stat'ed; its content stays as it was
StatFails(i) ==
    /\ i \in DOMAIN mapped_path
    /\ mapped_path[i].mtime # None
    /\ mapped_path' = [mapped_path EXCEPT ![i].mtime = None]
    /\ changed' = TRUE
    /\ edits' = edits + 1
    /\ UNCHANGED <<listdir_ok, custom_rename_pattern, collection_status, run, calls>>
    /\ UNCHANGED <<regVars, pureVars>>

StatInit ==
    /\ RegistryInit
    /\ PureIdle
    /\ mapped_path \in Directories
    /\ listdir_ok = TRUE
    /\ custom_rename_pattern \in Templates
    /\ collection_status = <<>>
    /\ run = NoRun
    /\ changed = FALSE
    /\ calls = 0
    /\ edits = 0

StatNext ==
    \/ \E issues \in IssueLists, series_info \in SeriesInfos, use_cache \in BOOLEAN :
          calls < MaxCalls /\ match_issues_to_collection(issues, series_info, use_cache)
    \/ \E i \in 1..MaxFiles : edits < MaxEdits + 1 /\ StatFails(i)

StatSpec == StatInit /\ [][StatNext]_vars

TierNames == <<"pattern", "comicinfo", "filename">>

\* C32: a file whose modification time cannot be read does not abort the
\* scan: it is recorded with an unknown time and stays eligible for all three
\* tiers, so when it is the first file of the first tier that accepts any, it
\* is the result; and the row staged for the issue is in the batch handed
\* to the bulk save with that file, found, and a null file_mtime.
C32_UnreadableMTime ==
    [][IsScan
          => \A i \in Numbered(run'.issues) :
                \E c \in {Candidates(Listing, run'.series_info.name,
                                     run'.issues[i].number)} :
                   \A x \in 1..3, k \in DOMAIN Listing :
                      (/\ \A y \in 1..(x - 1) : c[y] = {}
                       /\ k \in c[x]
                       /\ \A j \in c[x] : k <= j
                       /\ Listing[k].mtime = None)
                         => /\ Entry(Listing, run'.issues[i].number, k) \in run'.res
                            /\ (Truthy(run'.series_info.id) /\ Truthy(run'.issues[i].id))
                                  => /\ run'.saves # <<>>
                                     /\ [series_id |-> run'.series_info.id,
                                         issue_id |-> run'.issues[i].id,
                                         issue_number |-> run'.issues[i].number,
                                         found |-> 1,
                                         file_path |-> Listing[k].filename,
                                         file_mtime |-> None,
                                         matched_via |-> TierNames[x]]
                                           \in Range(run'.saves[1])]_vars

\* neither "U 001.cbz" nor "x.cbz" can be stat'ed; with the template the
\* pattern tier gives issue 1 the first and the metadata tier gives issue 02
\* the second, and both rows are in the cache with a null file_mtime
C32_Witness ==
    /\ run.called /\ run.listed /\ ~run.hit /\ ~changed
    /\ custom_rename_pattern = <<SERIES, " ", ISSUE>>
    /\ Len(mapped_path) = 2
    /\ mapped_path[1].filename = FileA.filename /\ mapped_path[1].mtime = None
    /\ mapped_path[2].filename = FileB.filename /\ mapped_path[2].mtime = None
    /\ run.res = {Entry(Listing, <<"1">>, 1), Entry(Listing, <<"0", "2">>, 2)}
    /\ Len(collection_status) = 2
    /\ \A n \in 1..2 :
          /\ collection_status[n].found = 1
          /\ collection_status[n].file_mtime = None
    /\ collection_status[1].matched_via = "pattern"
    /\ collection_status[2].matched_via = "comicinfo"


(***************************************************************************)
(* What cache validation does not look at: rows without a file path, and   *)
(* the cached time when it is null or zero                                 *)
(***************************************************************************)
\* a file that could not be stat'ed can be stat'ed again
StatRecovers(i, m) ==
    /\ i \in DOMAIN mapped_path
    /\ mapped_path[i].mtime = None
    /\ mapped_path' = [mapped_path EXCEPT ![i].mtime = m]
    /\ changed' = TRUE
    /\ edits' = edits + 1
    /\ UNCHANGED <<listdir_ok, custom_rename_pattern, collection_status, run, calls>>
    /\ UNCHANGED <<regVars, pureVars>>

CacheDirectories == {<<FileC, FileD>>, <<FileC>>, <<FileN>>}

RecoveredTimes == {0, 5}

CacheInit ==
    /\ RegistryInit
    /\ PureIdle
    /\ mapped_path \in CacheDirectories
    /\ listdir_ok = TRUE
    /\ custom_rename_pattern = <<>>
    /\ collection_status \in StoredRows
    /\ run = NoRun
    /\ changed = FALSE
    /\ calls = 0
    /\ edits = 0

CacheNext ==
    \/ \E issues \in IssueLists, use_cache \in BOOLEAN :
          calls < MaxCalls
             /\ match_issues_to_collection(issues, [id |-> 7, name |-> TheU], use_cache)
    \/ \E i \in 1..MaxFiles, d \in 1..2 : edits < MaxEdits + 1 /\ TouchFile(i, d)
    \/ edits < MaxEdits + 1 /\ AddFile(FileA)
    \/ \E i \in 1..MaxFiles, m \in RecoveredTimes :
          edits < MaxEdits + 1 /\ StatRecovers(i, m)

CacheSpec == CacheInit /\ [][CacheNext]_vars

\* validation accepts the row: it names no file, or its file is there and
\* the cached time is null, zero or within one second of the file's time
Accepted(row) ==
    \/ row.file_path = NoPath
    \/ \E i \in DOMAIN mapped_path :
          /\ mapped_path[i].filename = row.file_path
          /\ mapped_path[i].mtime # None
          /\ \/ row.file_mtime \in {None, 0}
             \/ /\ mapped_path[i].mtime - row.file_mtime <= 1
                /\ row.file_mtime - mapped_path[i].mtime <= 1

\* C33: cache validation inspects only the rows that carry a file path: a
\* row with a null file_path is always accepted, and a row whose cached time
\* is null or zero is accepted whatever time its file has now; so a cache of
\* not-found rows only is always a hit, and on a hit an issue cached as not
\* found is returned as not found whatever the directory holds by now.
C33_ValidationLooksAtPathsOnly ==
    [][ReadsCache
          => /\ run'.hit <=> \A k \in DOMAIN CachedRows : Accepted(CachedRows[k])
             /\ (\A k \in DOMAIN CachedRows : CachedRows[k].file_path = NoPath)
                   => run'.hit
             /\ run'.hit
                   => \A k \in DOMAIN CachedRows :
                         (/\ CachedRows[k].file_path = NoPath
                          /\ \A j \in DOMAIN CachedRows :
                                j > k => CachedRows[j].issue_number
                                            # CachedRows[k].issue_number)
                            => [issue_number |-> CachedRows[k].issue_number,
                                found |-> CachedRows[k].found # 0,
                                file_path |-> NoPath] \in run'.res]_vars

\* issue 02 is cached with "U #2.cbr" and the time 0, issue 1 as not found;
\* then "U 001.cbz" is added, which the generic tier accepts for issue 1, and
\* "U #2.cbr" is rewritten two seconds later: the next call is a hit and
\* returns issue 1 as not found
C33_Witness ==
    /\ run.called /\ run.hit /\ run.use_cache /\ ~changed
    /\ Len(mapped_path) = 2
    /\ mapped_path[1].filename = FileC.filename /\ mapped_path[1].mtime = 2
    /\ mapped_path[2] = FileA
    /\ 2 \in GenericMatches(Listing, <<"1">>)
    /\ Entry(Listing, <<"1">>, 0) \in run.res
    /\ Entry(Listing, <<"0", "2">>, 1) \in run.res
    /\ \E k \in DOMAIN collection_status :
          /\ collection_status[k].file_path = FileC.filename
          /\ collection_status[k].file_mtime = 0


(***************************************************************************)
(* Properties of the mapping returned on a cache hit                       *)
(***************************************************************************)
\* the last of the rows that has the issue number of row k
LastOf(rows, k) ==
    CHOOSE j \in DOMAIN rows :
       /\ rows[j].issue_number = rows[k].issue_number
       /\ \A m \in DOMAIN rows : rows[m].issue_number = rows[k].issue_number => m <= j

SharedDirectories == {<<FileH>>, <<FileB, FileH>>, <<FileH, FileA>>}

ShareInit ==
    /\ RegistryInit
    /\ PureIdle
    /\ mapped_path \in SharedDirectories
    /\ listdir_ok = TRUE
    /\ custom_rename_pattern \in Templates
    /\ collection_status = <<>>
    /\ run = NoRun
    /\ changed = FALSE
    /\ calls = 0
    /\ edits = 0

ShareNext ==
    \/ \E issues \in IssueLists, series_info \in SeriesInfos, use_cache \in BOOLEAN :
          calls < MaxCalls /\ match_issues_to_collection(issues, series_info, use_cache)
    \/ \E i \in 1..MaxFiles : edits < MaxEdits /\ RemoveFile(i)
    \/ \E f \in NewFiles : edits < MaxEdits /\ AddFile(f)

ShareSpec == ShareInit /\ [][ShareNext]_vars

\* what a pass over the one issue alone returns, without the cache
Alone(issue, series_info) ==
    MatchRun(mapped_path, listdir_ok, custom_rename_pattern, <<>>,
             <<issue>>, series_info, FALSE).res

\* C35: the issues are matched independently of each other: each issue gets
\* the file it would get in a pass of its own, whatever files the issues
\* before it were given, so two issues of one pass can have the same file.
C35_IssuesMatchedIndependently ==
    [][IsScan
          => \A i \in Numbered(run'.issues) :
                Alone(run'.issues[i], run'.series_info) \subseteq run'.res]_vars

\* "U 1.cbz" is the file of issue 1 and of issue 02 in the same pass
C35_Witness ==
    /\ run.called /\ run.listed /\ ~run.hit /\ ~changed
    /\ \E r1, r2 \in run.res :
          /\ r1.issue_number = <<"1">>
          /\ r2.issue_number = <<"0", "2">>
          /\ r1.found /\ r2.found
          /\ r1.file_path = FileH.filename
          /\ r2.file_path = FileH.filename
    /\ \E k \in DOMAIN collection_status :
          collection_status[k].file_path = FileH.filename
             /\ collection_status[k].matched_via = "comicinfo"


(***************************************************************************)
(* helpers/library.py                                                      *)
(*                                                                         *)
(* A path is a string, written as a sequence of characters.  The enabled   *)
(* libraries are the sequence of their root paths, in the order            *)
(* get_libraries(enabled_only=True) returns them.                          *)
(***************************************************************************)
sep == "/"

\* str.split('/')
RECURSIVE SplitAt(_, _)
SplitAt(s, cur) ==
    IF s = <<>> THEN <<cur>>
    ELSE IF Head(s) = sep THEN <<cur>> \o SplitAt(Tail(s), <<>>)
    ELSE SplitAt(Tail(s), Append(cur, Head(s)))

\* '/'.join(comps)
RECURSIVE JoinPath(_)
JoinPath(comps) ==
    IF comps = <<>> THEN <<>>
    ELSE IF Len(comps) = 1 THEN comps[1]
    ELSE comps[1] \o <<sep>> \o JoinPath(Tail(comps))

DotDot == <<".", ".">>

\* posixpath.normpath: one leading slash, or two when the path begins with
\* exactly two
InitialSlashes(path) ==
    IF ~StartsWith(path, <<sep>>) THEN 0
    ELSE IF StartsWith(path, <<sep, sep>>) /\ ~StartsWith(path, <<sep, sep, sep>>) THEN 2
    ELSE 1

\* posixpath.normpath: the loop over the components
RECURSIVE NormComps(_, _, _)
NormComps(comps, new_comps, initial_slashes) ==
    IF comps = <<>> THEN new_comps
    ELSE IF Head(comps) \in {<<>>, <<".">>}
    THEN NormComps(Tail(comps), new_comps, initial_slashes)
    ELSE IF \/ Head(comps) # DotDot
            \/ initial_slashes = 0 /\ new_comps = <<>>
            \/ new_comps # <<>> /\ new_comps[Len(new_comps)] = DotDot
    THEN NormComps(Tail(comps), Append(new_comps, Head(comps)), initial_slashes)
    ELSE IF new_comps # <<>>
    THEN NormComps(Tail(comps), SubSeq(new_comps, 1, Len(new_comps) - 1), initial_slashes)
    ELSE NormComps(Tail(comps), new_comps, initial_slashes)

\* os.path.normpath
normpath(path) ==
    IF path = <<>> THEN <<".">>
    ELSE Bind([i \in 1..InitialSlashes(path) |-> sep]
                 \o JoinPath(NormComps(SplitAt(path, <<>>), <<>>, InitialSlashes(path))),
              LAMBDA p : IF p = <<>> THEN <<".">> ELSE p)

DataRoot == <<"/", "d", "a", "t", "a">>

\* lines 5-18; data_exists is os.path.exists('/data')
get_library_roots(libraries, data_exists) ==
    IF libraries # <<>> THEN libraries
    ELSE IF data_exists THEN <<DataRoot>> ELSE <<>>

\* lines 33-51
is_valid_library_path(path, libraries, data_exists) ==
    IF path = <<>> THEN FALSE
    ELSE \E i \in DOMAIN get_library_roots(libraries, data_exists) :
            \/ normpath(path) = normpath(get_library_roots(libraries, data_exists)[i])
            \/ StartsWith(normpath(path),
                          normpath(get_library_roots(libraries, data_exists)[i]) \o <<sep>>)


(***************************************************************************)
(* is_valid_library_path on every short path, under a few configurations   *)
(* of the enabled libraries                                                *)
(***************************************************************************)
MaxPath == 4

PathChars == {"/", "d", "2", "."}

\* "/data", "/data2", "/data/d"
DataPaths == {DataRoot, DataRoot \o <<"2">>, DataRoot \o <<"/", "d">>}

Paths == Strings(PathChars, MaxPath) \cup DataPaths

\* no library; "/d"; "/d/"; "/"; "/2" and "/d/d"
LibraryLists ==
    {<<>>, <<<<"/", "d">>>>, <<<<"/", "d", "/">>>>, <<<<"/">>>>,
     <<<<"/", "2">>, <<"/", "d", "/", "d">>>>}

LibInit ==
    /\ RegistryInit
    /\ MatcherIdle
    /\ \E p \in Paths, libs \in LibraryLists, e \in BOOLEAN :
          arg = [path |-> p, libraries |-> libs, data_exists |-> e]
    /\ ret = <<>>

check_library_path ==
    /\ ret = <<>>
    /\ \E valid \in {is_valid_library_path(arg.path, arg.libraries, arg.data_exists)} :
          ret' = <<valid>>
    /\ UNCHANGED <<regVars, matchVars, arg>>

LibNext == check_library_path

LibSpec == LibInit /\ [][LibNext]_vars

\* the normalized path p is the normalized root r, or lies beneath it: r,
\* then a separator unless r ends with one already, then something more
Within(p, r) ==
    \/ p = r
    \/ /\ Len(p) > Len(r)
       /\ SubSeq(p, 1, Len(r)) = r
       /\ r[Len(r)] = sep \/ p[Len(r) + 1] = sep

\* C36: is_valid_library_path(path) returns True if and only if the
\* normalized path equals the normalized root of some enabled library (of
\* the roots get_library_roots returns) or lies beneath it at a
\* path-separator boundary; the empty path, a path under no root and a
\* sibling whose name begins with a root's name return False.
C36_ValidIffWithinLibrary ==
    ret # <<>>
       => (ret[1]
             <=> /\ arg.path # <<>>
                 /\ \E i \in DOMAIN get_library_roots(arg.libraries, arg.data_exists) :
                       Within(normpath(arg.path),
                              normpath(get_library_roots(arg.libraries,
                                                         arg.data_exists)[i])))


(***************************************************************************)
(* is_critical_path on every short path, under a few settings of the       *)
(* WATCH and TARGET folders                                                *)
(***************************************************************************)
\* config.get("SETTINGS", option, fallback=...): the settings are a function
\* from the options that are set to their values
config_get(settings, option, fallback) ==
    IF option \in DOMAIN settings THEN settings[option] ELSE fallback

DefaultWatch == <<"/", "t", "e", "m", "p">>
DefaultTarget == <<"/", "p", "r", "o", "c", "e", "s", "s", "e", "d">>

\* lines 75-97
is_critical_path(path, settings) ==
    IF path = <<>> THEN FALSE
    ELSE Bind(<<config_get(settings, "WATCH", DefaultWatch),
                config_get(settings, "TARGET", DefaultTarget)>>,
              LAMBDA f :
                 \/ path = f[1] \/ path = f[2]
                 \/ IsSubstring(path, f[1]) /\ StartsWith(f[1], path)
                 \/ IsSubstring(path, f[2]) /\ StartsWith(f[2], path))

\* both folders set; the watch folder alone; neither
FolderSettings ==
    {[WATCH |-> <<"/", "d", "2">>, TARGET |-> <<"/", "d", "/", "2">>],
     [WATCH |-> <<"/", "2", "/", "d">>],
     [o \in {} |-> <<>>]}

\* "/te", "/temp/", "/temp/x", "/proc"
TempPaths ==
    {DefaultWatch, DefaultTarget, <<"/", "t", "e">>, DefaultWatch \o <<"/">>,
     DefaultWatch \o <<"/", "x">>, <<"/", "p", "r", "o", "c">>}

CriticalInit ==
    /\ RegistryInit
    /\ MatcherIdle
    /\ \E p \in Paths \cup TempPaths, s \in FolderSettings :
          arg = [path |-> p, settings |-> s]
    /\ ret = <<>>

check_critical_path ==
    /\ ret = <<>>
    /\ \E critical \in {is_critical_path(arg.path, arg.settings)} :
          ret' = <<critical>>
    /\ UNCHANGED <<regVars, matchVars, arg>>

CriticalNext == check_critical_path

CriticalSpec == CriticalInit /\ [][CriticalNext]_vars

\* the directory p is above the folder f: f is p, then a separator unless p
\* ends with one already, then something more
ParentOf(p, f) ==
    /\ Len(f) > Len(p)
    /\ SubSeq(f, 1, Len(p)) = p
    /\ p[Len(p)] = sep \/ f[Len(p) + 1] = sep

\* C37: is_critical_path(path) returns True if and only if path is exactly
\* the configured WATCH or TARGET folder or is a parent directory of one of
\* them; every other path, the empty path included, returns False.
C37_CriticalIffFolderOrParent ==
    ret # <<>>
       => \E f \in {<<config_get(arg.settings, "WATCH", DefaultWatch),
                      config_get(arg.settings, "TARGET", DefaultTarget)>>} :
             ret[1]
                <=> /\ arg.path # <<>>
                    /\ \/ arg.path = f[1] \/ arg.path = f[2]
                       \/ ParentOf(arg.path, f[1]) \/ ParentOf(arg.path, f[2])


(***************************************************************************)
(* routes/downloads.py: the three save-schedule endpoints                  *)
(*                                                                         *)
(* A request body is a record of the fields the endpoints read.  A number  *)
(* field is what int() makes of it: the number, or nothing when int()      *)
(* raises ValueError.  A time is the sequence of the parts between its     *)
(* colons.  A start date is given or not, parses as %Y-%m-%d or not, and   *)
(* lies a number of days before today.  The database and the scheduler are *)
(* outside the sources: a save returns true or false or raises, a          *)
(* reconfiguration returns or raises.                                      *)
(***************************************************************************)
MaxRequests == 2

Part(n) == [digits |-> TRUE, n |-> n]
BadPart == [digits |-> FALSE, n |-> 0]

NoDate == [given |-> FALSE, parses |-> FALSE, days_ago |-> 0]
BadDate == [given |-> TRUE, parses |-> FALSE, days_ago |-> 0]
Date(d) == [given |-> TRUE, parses |-> TRUE, days_ago |-> d]

\* request.get_json() returned None
NoBody == [body |-> FALSE]

Body(frequency, time, weekday, format, publishers, start_date) ==
    [body |-> TRUE, frequency |-> frequency, time |-> time, weekday |-> weekday,
     format |-> format, publishers |-> publishers, start_date |-> start_date]

\* lines 171, 255
frequency_ok(frequency) == frequency \in {"disabled", "daily", "weekly"}

\* lines 259-264, 401-406
time_ok(parts) ==
    /\ Len(parts) = 2
    /\ parts[1].digits /\ 0 <= parts[1].n /\ parts[1].n <= 23
    /\ parts[2].digits /\ 0 <= parts[2].n /\ parts[2].n <= 59

\* lines 380-389: the date parses and lies within the last 180 days
start_date_ok(start_date) ==
    \/ ~start_date.given
    \/ /\ start_date.parses
       /\ 0 <= start_date.days_ago
       /\ start_date.days_ago < 180

\* lines 392-398
format_ok(format_pref) == format_pref \in {"JPG", "WEBP"}
publishers_ok(publishers) ==
    \A i \in DOMAIN publishers : publishers[i] \in {"DC", "Marvel", "Image", "INDIE"}

\* lines 165-172: "raised" when the handler leaves its try block by an
\* exception, "rejected" when validation returns the 400 response
sync_verdict(data) ==
    IF ~data.body \/ ~data.weekday.digits THEN "raised"
    ELSE IF ~frequency_ok(data.frequency) THEN "rejected"
    ELSE "ok"

\* lines 249-264
getcomics_verdict(data) ==
    IF ~data.body \/ ~data.weekday.digits THEN "raised"
    ELSE IF ~frequency_ok(data.frequency) THEN "rejected"
    ELSE IF ~time_ok(data.time) THEN "rejected"
    ELSE "ok"

\* lines 370-410
weekly_verdict(data) ==
    IF ~data.body \/ ~data.weekday.digits THEN "raised"
    ELSE IF ~start_date_ok(data.start_date) THEN "rejected"
    ELSE IF ~format_ok(data.format) THEN "rejected"
    ELSE IF ~publishers_ok(data.publishers) THEN "rejected"
    ELSE IF ~time_ok(data.time) THEN "rejected"
    ELSE IF ~(0 <= data.weekday.n /\ data.weekday.n <= 6) THEN "rejected"
    ELSE "ok"

Endpoints == {"save-sync-schedule", "save-getcomics-schedule", "save-weekly-packs-config"}

Verdict(endpoint, data) ==
    CASE endpoint = "save-sync-schedule" -> sync_verdict(data)
      [] endpoint = "save-getcomics-schedule" -> getcomics_verdict(data)
      [] endpoint = "save-weekly-packs-config" -> weekly_verdict(data)

\* a request arrives at an endpoint
begin_request(t, endpoint, data) ==
    /\ requests[t].at \in {"idle", "done"}
    /\ requests[t].served < MaxRequests
    /\ requests' = [requests EXCEPT ![t] =
                       [endpoint |-> endpoint, data |-> data, at |-> "validate",
                        status |-> 0, did |-> <<>>, served |-> @.served + 1]]
    /\ UNCHANGED <<operations, clock, ticks, issued, pc, local, results, last, abandoned>>
    /\ UNCHANGED <<lockVars, callerVars, matchVars, pureVars>>

\* the handler reads the body and validates it
validate_request(t) ==
    /\ requests[t].at = "validate"
    /\ \E v \in {Verdict(requests[t].endpoint, requests[t].data)} :
          requests' = [requests EXCEPT
                          ![t].at = IF v = "ok" THEN "save" ELSE "done",
                          ![t].status = IF v = "ok" THEN 0
                                        ELSE IF v = "rejected" THEN 400 ELSE 500]
    /\ UNCHANGED <<operations, clock, ticks, issued, pc, local, results, last, abandoned>>
    /\ UNCHANGED <<lockVars, callerVars, matchVars, pureVars>>

SaveOutcomes == {"saved", "save failed", "save raised"}

db_save_proceed(t, outcome) ==
    /\ requests[t].at = "save"
    /\ requests' = [requests EXCEPT
                       ![t].did = Append(@, outcome),
                       ![t].at = IF outcome # "save raised" THEN "configure" ELSE "done",
                       ![t].status = IF outcome # "save raised" THEN 0 ELSE 500]
    /\ UNCHANGED <<operations, clock, ticks, issued, pc, local, results, last, abandoned>>
    /\ UNCHANGED <<lockVars, callerVars, matchVars, pureVars>>

\* lines 175-176, 267-268, 413-414: the save of the request, and the 500
\* response when it returns false or raises
db_save(t, outcome) ==
    /\ requests[t].at = "save"
    /\ requests' = [requests EXCEPT
                       ![t].did = Append(@, outcome),
                       ![t].at = IF outcome = "saved" THEN "configure" ELSE "done",
                       ![t].status = IF outcome = "saved" THEN 0 ELSE 500]
    /\ UNCHANGED <<operations, clock, ticks, issued, pc, local, results, last, abandoned>>
    /\ UNCHANGED <<lockVars, callerVars, matchVars, pureVars>>

\* lines 179-186, 271-278, 417-425: the scheduler is reconfigured and the
\* success response returned, or the reconfiguration raises
configure_schedule(t, raised) ==
    /\ requests[t].at = "configure"
    /\ requests' = [requests EXCEPT
                       ![t].did = Append(@, "configure"),
                       ![t].at = "done",
                       ![t].status = IF raised THEN 500 ELSE 200]
    /\ UNCHANGED <<operations, clock, ticks, issued, pc, local, results, last, abandoned>>
    /\ UNCHANGED <<lockVars, callerVars, matchVars, pureVars>>

GoodSchedule == Body("daily", <<Part(3), Part(0)>>, Part(0), "JPG", <<>>, NoDate)

ScheduleBodies ==
    {NoBody, GoodSchedule,
     [GoodSchedule EXCEPT !.frequency = "hourly"],
     [GoodSchedule EXCEPT !.time = <<Part(24), Part(0)>>],
     [GoodSchedule EXCEPT !.time = <<Part(3)>>],
     [GoodSchedule EXCEPT !.time = <<BadPart, Part(0)>>],
     [GoodSchedule EXCEPT !.weekday = BadPart],
     [GoodSchedule EXCEPT !.weekday = Part(7)]}

GoodWeekly == Body("weekly", <<Part(10), Part(0)>>, Part(2), "JPG", <<"DC", "INDIE">>, Date(0))

WeeklyBodies ==
    {NoBody, GoodWeekly,
     [GoodWeekly EXCEPT !.start_date = NoDate],
     [GoodWeekly EXCEPT !.start_date = BadDate],
     [GoodWeekly EXCEPT !.start_date = Date(180)],
     [GoodWeekly EXCEPT !.start_date = Date(-1)],
     [GoodWeekly EXCEPT !.format = "PNG"],
     [GoodWeekly EXCEPT !.publishers = <<"DC", "Viz">>],
     [GoodWeekly EXCEPT !.time = <<Part(10), Part(60)>>],
     [GoodWeekly EXCEPT !.weekday = Part(7)],
     [GoodWeekly EXCEPT !.weekday = BadPart]}

Bodies(endpoint) ==
    IF endpoint = "save-weekly-packs-config" THEN WeeklyBodies ELSE ScheduleBodies

RouteInit == RegistryInit /\ MatcherIdle /\ PureIdle

RouteNext ==
    \/ \E t \in Threads, e \in Endpoints : \E data \in Bodies(e) : begin_request(t, e, data)
    \/ \E t \in Threads : validate_request(t)
    \/ \E t \in Threads, outcome \in SaveOutcomes : db_save(t, outcome)
    \/ \E t \in Threads, raised \in BOOLEAN : configure_schedule(t, raised)

RouteSpec == RouteInit /\ [][RouteNext]_vars

\* C38: in each save-schedule endpoint the scheduler is reconfigured only
\* after the database save of the same request has succeeded: a request
\* rejected by input validation (answered 400) has made neither the save nor
\* the reconfiguration, and a request whose save failed is answered with an
\* error and has not reconfigured the scheduler.
C38_ConfigureAfterSave ==
    \A t \in Threads :
       /\ (\E k \in DOMAIN requests[t].did : requests[t].did[k] = "configure")
             => requests[t].did = <<"saved", "configure">>
       /\ requests[t].status = 400 => requests[t].did = <<>>
       /\ (\E k \in DOMAIN requests[t].did :
              requests[t].did[k] \in {"save failed", "save raised"})
             => /\ Len(requests[t].did) = 1
                /\ requests[t].at = "done"
                /\ requests[t].status = 500

\* one request saved and reconfigured the scheduler and was answered 200;
\* another, to the weekly packs endpoint, was answered 500 after its save
\* returned false
C38_Witness ==
    /\ requests[1].at = "done"
    /\ requests[1].status = 200
    /\ requests[1].did = <<"saved", "configure">>
    /\ requests[2].endpoint = "save-weekly-packs-config"
    /\ requests[2].at = "done"
    /\ requests[2].status = 500
    /\ requests[2].did = <<"save failed">>

====
